---------------------------- MODULE Spec2Model ----------------------------
(***************************************************************************)
(* A model of the ParfumVault automation module (src/automation): the      *)
(* relational store behind db_adapter.py, the safe-upsert policy, and the  *)
(* enrichment pipeline of enrichment.py with the two external sources of   *)
(* scraper.py, and the fetch layer of scraper.py with its response cache,  *)
(* rate limit and retries.                                                 *)
(*                                                                         *)
(* Strings are sequences of atoms.  An atom is a word or a single blank    *)
(* " "; a capitalised word ("Rose") and its lowercase form ("rose") are    *)
(* different atoms related by LowerAtom.  str.strip() and str.lower() are  *)
(* computed on these sequences.                                            *)
(*                                                                         *)
(* A Python value is a record [t, s, n]: t is its type tag, s its string   *)
(* content (when t = "str") and n its number (when t is "int", "float" or  *)
(* "ts").  Floats are held in tenths, so 100.0 is the number 1000.         *)
(***************************************************************************)
EXTENDS Integers, Sequences, FiniteSets, TLC

VARIABLES
  ingredients,   \* rows of table `ingredients`            (models.py:31)
  ifra,          \* rows of table `IFRALibrary`            (models.py:114)
  synonyms,      \* rows of table `synonyms`               (models.py:242)
  scraper,       \* the FragranceScraper, its cache files and the clock (scraper.py:275)
  last           \* the last call made: its arguments, the store before it, its result

vars == <<ingredients, ifra, synonyms, scraper, last>>

---------------------------------------------------------------------------
(* Bounds of the model *)

\* no call creates an ingredient or IFRA row once the two tables together
\* hold this many rows
MaxRows == 2

---------------------------------------------------------------------------
(* Python values *)

None == [t |-> "none", s |-> <<>>, n |-> 0]
Str(s) == [t |-> "str", s |-> s, n |-> 0]
PyInt(n) == [t |-> "int", s |-> <<>>, n |-> n]
Float10(n) == [t |-> "float", s |-> <<>>, n |-> n]
Ts(n) == [t |-> "ts", s |-> <<>>, n |-> n]

\* 100.0, the "no restriction" value, in tenths
NoRestriction10 == 1000

\* Python truthiness of a value: None, "", 0 and 0.0 are falsy
Truthy(v) ==
  CASE v.t = "none" -> FALSE
    [] v.t = "str" -> v.s # <<>>
    [] OTHER -> v.n # 0

---------------------------------------------------------------------------
(* Strings *)

LowerAtom(a) ==
  CASE a = "Rose" -> "rose"
    [] a = "ROSE" -> "rose"
    [] a = "Musk" -> "musk"
    [] a = "Oil" -> "oil"
    [] a = "Bergamot" -> "bergamot"
    [] a = "Essential" -> "essential"
    [] OTHER -> a

\* str.lower()
Lower(s) == [i \in 1..Len(s) |-> LowerAtom(s[i])]

RECURSIVE LStrip(_)
LStrip(s) == IF s # <<>> /\ Head(s) = " " THEN LStrip(Tail(s)) ELSE s

RECURSIVE RStrip(_)
RStrip(s) ==
  IF s # <<>> /\ s[Len(s)] = " " THEN RStrip(SubSeq(s, 1, Len(s) - 1)) ELSE s

\* str.strip()
Strip(s) == RStrip(LStrip(s))

\* column.ilike(pattern): lower(column) LIKE lower(pattern).  The names of the
\* model hold no LIKE wildcard, so LIKE is equality, blanks included
ILike(stored, pattern) == Lower(stored) = Lower(pattern)

\* owner_id or self.config.owner_id
ConfigOwnerId == <<"1">>
OwnerOf(owner_id) == IF Truthy(owner_id) THEN owner_id ELSE Str(ConfigOwnerId)

---------------------------------------------------------------------------
(* The ORM session: db_adapter.py, DatabaseAdapter.session *)

\* the row a lookup did not find
NoRow == [absent |-> TRUE]

MaxId(rows) ==
  IF rows = {} THEN 0
  ELSE CHOOSE m \in {r.id.n : r \in rows} : \A r \in rows : r.id.n <= m

\* the server's CURRENT_TIMESTAMP: a logical clock that ticks with every insert
Now == Cardinality(ingredients) + Cardinality(ifra) + Cardinality(synonyms) + 1

\* self.SessionLocal(): a session on a table; `dirty` are the persistent objects
\* it tracks that were modified, `new` the pending ones
SessionLocal(table) == [db |-> table, dirty |-> {}, new |-> {}]

\* setattr on a persistent object the session tracks
SessSetattr(sess, obj) ==
  [sess EXCEPT !.dirty = {d \in @ : d.id # obj.id} \cup {obj}]

\* session.add(obj)
SessAdd(sess, obj) == [sess EXCEPT !.new = @ \cup {obj}]

\* session.flush(): emit UPDATE for the dirty objects and INSERT for the new ones
SessFlush(sess) ==
  [db |-> {r \in sess.db : \A d \in sess.dirty : d.id # r.id}
            \cup sess.dirty \cup sess.new,
   dirty |-> {},
   new |-> {}]

\* session.expunge(obj): the session forgets the object, and with it the
\* object's changes that were not flushed
SessExpunge(sess, obj) ==
  [sess EXCEPT !.dirty = {d \in @ : d.id # obj.id},
               !.new = {d \in @ : d.id # obj.id}]

\* leaving `with self.session()`: commit (flush what the session still tracks)
\* on a normal exit, rollback when the block raised
SessExit(sess, table, raised) ==
  IF raised THEN table ELSE SessFlush(sess).db

---------------------------------------------------------------------------
(* The safe-upsert policy: db_adapter.py *)

\* the columns of `ingredients` the model keeps (models.py:39-106)
IngColumns ==
  {"id", "name", "owner_id", "created_at", "cas", "profile", "cid", "cat1",
   "type", "tenacity"}

\* the columns of `IFRALibrary` the model keeps (models.py:122-165)
IfraColumns == {"id", "name", "cas", "type", "cat1", "owner_id"}

\* the protected keys of upsert_ifra_entry used in upsert_ingredient
IngProtectedAsIfra == {"id", "owner_id"}

\* "Skip protected fields"
IngProtected == {"id", "name", "owner_id", "created_at"}
IfraProtected == {"id", "owner_id"}

\* IsEmpty with `current_value == ""` widened to every string
IsEmptyAnyString(current_value) ==
  \/ current_value.t = "none"
  \/ current_value.t = "str"
  \/ (current_value.t = "float" /\ current_value.n = NoRestriction10)

\* is_empty = current_value is None or current_value == "" or
\*            (isinstance(current_value, float) and current_value == 100.0)
IsEmpty(current_value) ==
  \/ current_value.t = "none"
  \/ (current_value.t = "str" /\ current_value.s = <<>>)
  \/ (current_value.t = "float" /\ current_value.n = NoRestriction10)

\* the condition under which the loop body runs setattr(existing, key, value)
ShouldWrite(fill_missing_only, current_value, value) ==
  IF fill_missing_only
  THEN IsEmpty(current_value) /\ value # None
  ELSE value # None

\* the keys the update loop skips before it looks at the current value
SkipKey(key, protected, columns) == key \in protected \/ key \notin columns

\* updated_fields: the keys for which the update loop ran setattr
UpdatedFields(existing, data, fill_missing_only, protected, columns) ==
  {key \in DOMAIN data :
     /\ ~SkipKey(key, protected, columns)
     /\ ShouldWrite(fill_missing_only, existing[key], data[key])}

\* the object `existing` after the update loop
ApplyUpdate(existing, data, fill_missing_only, protected, columns) ==
  LET upd == UpdatedFields(existing, data, fill_missing_only, protected, columns)
  IN [c \in DOMAIN existing |-> IF c \in upd THEN data[c] ELSE existing[c]]

\* dict.get(key, "")
GetOrEmpty(data, key) == IF key \in DOMAIN data THEN data[key] ELSE Str(<<>>)

\* ingredient_data["owner_id"] = owner
WithOwner(data, owner) ==
  [k \in DOMAIN data \cup {"owner_id"} |->
     IF k = "owner_id" THEN owner ELSE data[k]]

\* Ingredient(**data) / IFRALibrary(**data) as the INSERT stores it: a column
\* the data leaves out, or gives as None while the column has a default,
\* takes its default (the autoincrement id, the server timestamp, 100.0)
NewRow(data, columns, table) ==
  [c \in columns |->
     IF c \in DOMAIN data /\ data[c] # None THEN data[c]
     ELSE CASE c = "id" -> PyInt(MaxId(table) + 1)
            [] c = "created_at" -> Ts(Now)
            [] c = "cat1" -> Float10(NoRestriction10)
            [] OTHER -> None]

\* the outcome of a call that raised before or inside its session: rollback
Raised(table, what) ==
  [table |-> table, existing |-> NoRow, ret |-> NoRow, created |-> FALSE,
   raised |-> what, updated_fields |-> {}]

\* the update branch (`if existing:`): the loop sets the attributes on
\* `existing`, then session.expunge(existing), then the block exits and commits
UpdateBranch(table, existing, data, fill_missing_only, protected, columns) ==
  LET obj == ApplyUpdate(existing, data, fill_missing_only, protected, columns)
      s1 == SessSetattr(SessionLocal(table), obj)
      s2 == SessExpunge(s1, obj)
  IN [table |-> SessExit(s2, table, FALSE), existing |-> existing,
      ret |-> obj, created |-> FALSE, raised |-> "none",
      updated_fields |->
        UpdatedFields(existing, data, fill_missing_only, protected, columns)]

\* the create branch: the constructor rejects a key that is no attribute
\* (TypeError); session.add, session.flush (the INSERT fails on a primary key
\* already taken), session.expunge, then the block exits and commits
CreateBranch(table, data, owner, columns) ==
  LET data2 == WithOwner(data, owner)
      obj == NewRow(data2, columns, table)
      s1 == SessAdd(SessionLocal(table), obj)
      s2 == SessFlush(s1)
      s3 == SessExpunge(s2, obj)
  IN IF ~(DOMAIN data2 \subseteq columns) THEN Raised(table, "TypeError")
     ELSE IF \E r \in table : r.id = obj.id
          THEN Raised(table, "IntegrityError")
          ELSE [table |-> SessExit(s3, table, FALSE), existing |-> NoRow,
                ret |-> obj, created |-> TRUE, raised |-> "none",
                updated_fields |-> {}]

\* the rows `Ingredient.name.ilike(name), Ingredient.owner_id == owner` selects
IngMatches(table, name, owner) ==
  {r \in table : r.name.t = "str" /\ ILike(r.name.s, name) /\ r.owner_id = owner}

\* query.first(): some selected row (the query has no ORDER BY), or no row
First(rows) == IF rows = {} THEN {NoRow} ELSE rows

\* the name upsert_ingredient looks up: ingredient_data.get("name", "").strip()
UpsertName(data) == Strip(GetOrEmpty(data, "name").s)

\* upsert_ingredient(ingredient_data, fill_missing_only, owner_id), with
\* `existing` the row its query returned and `dbfail` whether the database
\* raised inside the session
upsert_ingredient(table, data, fill_missing_only, owner_id, existing, dbfail) ==
  LET owner == OwnerOf(owner_id)
  IN IF GetOrEmpty(data, "name").t # "str" THEN Raised(table, "AttributeError")
     ELSE IF UpsertName(data) = <<>> THEN Raised(table, "ValueError")
     ELSE IF dbfail THEN Raised(table, "DBError")
     ELSE IF existing # NoRow
          THEN UpdateBranch(table, existing, data, fill_missing_only,
                            IngProtected, IngColumns)
          ELSE CreateBranch(table, data, owner, IngColumns)

\* the rows upsert_ifra_entry may take as `existing`: by CAS first
\* (IFRALibrary.cas == cas), and when that finds none, by name (ilike)
IfraMatches(table, cas, name, owner) ==
  LET byCas == IF cas = <<>> THEN {}
               ELSE {r \in table : r.cas = Str(cas) /\ r.owner_id = owner}
      byName == IF name = <<>> THEN {}
                ELSE {r \in table : /\ r.name.t = "str"
                                    /\ ILike(r.name.s, name)
                                    /\ r.owner_id = owner}
  IN IF byCas # {} THEN byCas ELSE byName

\* upsert_ifra_entry(ifra_data, fill_missing_only, owner_id)
upsert_ifra_entry(table, data, fill_missing_only, owner_id, existing, dbfail) ==
  LET owner == OwnerOf(owner_id)
      cas == GetOrEmpty(data, "cas")
      name == GetOrEmpty(data, "name")
  IN IF cas.t # "str" \/ name.t # "str" THEN Raised(table, "AttributeError")
     ELSE IF Strip(cas.s) = <<>> /\ Strip(name.s) = <<>>
          THEN Raised(table, "ValueError")
     ELSE IF dbfail THEN Raised(table, "DBError")
     ELSE IF existing # NoRow
          THEN UpdateBranch(table, existing, data, fill_missing_only,
                            IfraProtected, IfraColumns)
          ELSE CreateBranch(table, data, owner, IfraColumns)

\* add_synonym's query finding no row
SynMatchesNever(table, ingredient_name, synonym, owner) == {}

\* the rows add_synonym's query selects
SynMatches(table, ingredient_name, synonym, owner) ==
  {r \in table : /\ r.ing = Str(ingredient_name)
                 /\ r.synonym = Str(synonym)
                 /\ r.owner_id = owner}

\* add_synonym(ingredient_name, synonym, source, cid, owner_id): the table
\* after the call, or the table unchanged when the session raised
add_synonym(table, ingredient_name, synonym, source, cid, owner_id, dbfail) ==
  LET owner == OwnerOf(owner_id)
      obj == [id |-> PyInt(MaxId(table) + 1), ing |-> Str(ingredient_name),
              synonym |-> Str(synonym), source |-> source, cid |-> cid,
              owner_id |-> owner]
      s3 == SessExpunge(SessFlush(SessAdd(SessionLocal(table), obj)), obj)
  IN IF dbfail THEN table
     ELSE IF SynMatches(table, ingredient_name, synonym, owner) # {} THEN table
     ELSE SessExit(s3, table, FALSE)

---------------------------------------------------------------------------
(* Inputs of the calls *)

\* d1 extended and overridden by d2
Merge(d1, d2) ==
  [k \in DOMAIN d1 \cup DOMAIN d2 |-> IF k \in DOMAIN d2 THEN d2[k] ELSE d1[k]]

EmptyDict == [k \in {} |-> None]

NameInputs == {<<"rose">>, <<" ", "Rose">>, <<" ">>}

OwnerInputs == {None, Str(<<"2">>)}

\* field sets a caller passes with the name: none; a limit as
\* update_ingredients_from_ifra copies it, with a CAS number; and one with
\* protected keys, a key that is no column, None, "" and other values
IngPayloads ==
  { EmptyDict,
    [cas |-> Str(<<"c1">>), cat1 |-> Float10(5)],
    [id |-> PyInt(9), owner_id |-> Str(<<"3">>), created_at |-> Ts(0),
     fema |-> Str(<<"f1">>), cas |-> Str(<<"c2">>), profile |-> Str(<<>>),
     cid |-> None, cat1 |-> Float10(20)] }

IngDataInputs ==
  {Merge([name |-> Str(n)], p) : n \in NameInputs, p \in IngPayloads}
    \cup {[name |-> None]}

\* entries as IFRAEntry.to_dict() builds them (ifra_sync.py:56-86), and one
\* without a name
IfraDataInputs ==
  { [name |-> Str(<<"rose">>), cas |-> Str(<<"c1">>), type |-> None,
     cat1 |-> Float10(5)],
    [name |-> Str(<<" ", "Rose">>), cas |-> Str(<<"c2">>), type |-> Str(<<"t1">>),
     cat1 |-> Float10(NoRestriction10)],
    [name |-> Str(<<"rose">>), cas |-> None, type |-> Str(<<"t1">>),
     cat1 |-> Float10(20)],
    [cas |-> Str(<<"c1">>), name |-> Str(<<>>), type |-> Str(<<"t2">>),
     cat1 |-> Float10(20), id |-> PyInt(9)],
    [cas |-> Str(<<>>), type |-> Str(<<"t2">>)] }

---------------------------------------------------------------------------
(* The store operations as actions *)

StoreSize == Cardinality(ingredients) + Cardinality(ifra)

\* the URLs fetched, and the cache file of a URL that has none
URLs == {"u1", "u2"}
NoEntry == [absent |-> TRUE]

\* FragranceScraper.__init__ at clock `now`, in seconds: an empty cache
\* directory, _last_request_time = 0.0, no request sent yet (sent = -1)
NewScraper(now, cache_enabled) ==
  [now |-> now, cache_enabled |-> cache_enabled, last_request_time |-> 0,
   cache |-> [u \in URLs |-> NoEntry], sent |-> -1, calls |-> 0]

Init ==
  /\ ingredients = {}
  /\ ifra = {}
  /\ synonyms = {}
  /\ scraper = NewScraper(100, TRUE)
  /\ last = [op |-> "init"]

UpsertIngredient ==
  \E data \in IngDataInputs, fmo \in BOOLEAN, owner_id \in OwnerInputs :
    \E existing \in First(IngMatches(ingredients, UpsertName(data),
                                     OwnerOf(owner_id))) :
      \E res \in {upsert_ingredient(ingredients, data, fmo, owner_id,
                                   existing, FALSE)} :
         /\ res.created => StoreSize < MaxRows
         /\ ingredients' = res.table
         /\ last' = [op |-> "upsert_ingredient", data |-> data, fmo |-> fmo,
                     owner |-> OwnerOf(owner_id), pre |-> ingredients,
                     existing |-> res.existing, ret |-> res.ret,
                     created |-> res.created, raised |-> res.raised,
                     updated_fields |-> res.updated_fields]
         /\ UNCHANGED <<ifra, synonyms, scraper>>

UpsertIfraEntry ==
  \E data \in IfraDataInputs, fmo \in BOOLEAN, owner_id \in OwnerInputs :
    \E existing \in First(IfraMatches(ifra, Strip(GetOrEmpty(data, "cas").s),
                                      Strip(GetOrEmpty(data, "name").s),
                                      OwnerOf(owner_id))) :
      \E res \in {upsert_ifra_entry(ifra, data, fmo, owner_id, existing,
                                   FALSE)} :
         /\ res.created => StoreSize < MaxRows
         /\ ifra' = res.table
         /\ last' = [op |-> "upsert_ifra_entry", data |-> data, fmo |-> fmo,
                     owner |-> OwnerOf(owner_id), pre |-> ifra,
                     existing |-> res.existing, ret |-> res.ret,
                     created |-> res.created, raised |-> res.raised,
                     updated_fields |-> res.updated_fields]
         /\ UNCHANGED <<ingredients, synonyms, scraper>>

Next == UpsertIngredient \/ UpsertIfraEntry

Spec == Init /\ [][Next]_vars

---------------------------------------------------------------------------
(* Name normalisation: enrichment.py *)

Take(seq, n) == SubSeq(seq, 1, IF Len(seq) < n THEN Len(seq) ELSE n)

SeqRange(seq) == {seq[i] : i \in 1..Len(seq)}

\* the least index in a set of indices, 0 for the empty set
FirstOf(hits) ==
  IF hits = {} THEN 0 ELSE CHOOSE i \in hits : \A j \in hits : i <= j

\* str.endswith
EndsWith(s, suffix) ==
  /\ Len(suffix) <= Len(s)
  /\ SubSeq(s, Len(s) - Len(suffix) + 1, Len(s)) = suffix

\* the keys of INGREDIENT_ALIASES in dictionary order, and its lists: the
\* entries the modelled names can reach
AliasPrimaries == << <<"bergamot">>, <<"rose">>, <<"musk">> >>

INGREDIENT_ALIASES ==
  [p \in SeqRange(AliasPrimaries) |->
     CASE p = <<"bergamot">> ->
            << <<"bergamot", " ", "oil">>,
               <<"bergamot", " ", "essential", " ", "oil">>,
               <<"citrus", " ", "bergamia">> >>
       [] p = <<"rose">> ->
            << <<"rose", " ", "oil">>, <<"rosa", " ", "damascena">>,
               <<"rose", " ", "absolute">>, <<"rose", " ", "otto">> >>
       [] OTHER ->
            << <<"musk", " ", "ketone">>, <<"muscone">>,
               <<"white", " ", "musk">> >>]

suffixes_to_remove ==
  << <<" ", "essential", " ", "oil">>, <<" ", "absolute">>, <<" ", "resinoid">>,
     <<" ", "concrete">>, <<" ", "co2", " ", "extract">>, <<" ", "oil">> >>

\* the first entry of INGREDIENT_ALIASES with
\* `normalized == primary or normalized in [a.lower() for a in aliases]`
AliasHit(normalized) ==
  FirstOf({i \in 1..Len(AliasPrimaries) :
             \/ normalized = AliasPrimaries[i]
             \/ normalized \in
                  {Lower(a) : a \in SeqRange(INGREDIENT_ALIASES[AliasPrimaries[i]])}})

normalize_ingredient_name(name) ==
  LET normalized == Lower(Strip(name))
      si == FirstOf({i \in 1..Len(suffixes_to_remove) :
                       EndsWith(normalized, suffixes_to_remove[i])})
      base_name ==
        Strip(SubSeq(normalized, 1,
                     Len(normalized) - Len(suffixes_to_remove[si])))
      ai == AliasHit(normalized)
  IN IF si # 0 /\ base_name \in DOMAIN INGREDIENT_ALIASES
     THEN INGREDIENT_ALIASES[base_name][1]
     ELSE IF ai # 0 THEN INGREDIENT_ALIASES[AliasPrimaries[ai]][1]
     ELSE Strip(name)

\* a key that keeps the case of the variant
VariantKeyCaseKept(v) == v

\* v_lower = v.lower(), the key a variant is remembered by
VariantKey(v) == Lower(v)

\* "Remove duplicates while preserving order", by lowercased value
RECURSIVE UniqueVariants(_, _)
UniqueVariants(variants, seen) ==
  IF variants = <<>> THEN <<>>
  ELSE IF VariantKey(Head(variants)) \in seen
       THEN UniqueVariants(Tail(variants), seen)
       ELSE <<Head(variants)>> \o
            UniqueVariants(Tail(variants),
                           seen \cup {VariantKey(Head(variants))})

\* unique_variants[:5]
VariantLimit == 5

get_search_variants(name) ==
  LET normalized == normalize_ingredient_name(name)
      v1 == IF Strip(name) # normalized
            THEN <<normalized, Strip(name)>> ELSE <<normalized>>
      ai == AliasHit(Lower(Strip(name)))
      v2 == IF ai # 0 THEN v1 \o INGREDIENT_ALIASES[AliasPrimaries[ai]] ELSE v1
  IN Take(UniqueVariants(v2, {}), VariantLimit)

\* the words the names given to get_search_variants are made of
VariantWords ==
  {"rose", "Rose", "ROSE", "oil", "Oil", "bergamot", "Bergamot", "essential",
   "Essential", "absolute", "musk", "otto"}

\* one to three words with single blanks between them, as such or with a
\* blank before and after; the blank name and the empty name
VariantNames ==
  LET joined ==
        {<<a>> : a \in VariantWords}
          \cup {<<a, " ", b>> : a \in VariantWords, b \in VariantWords}
          \cup {<<a, " ", b, " ", c>> : a \in VariantWords,
                                       b \in VariantWords, c \in {"oil", "Oil"}}
  IN joined \cup {<<" ">> \o n \o <<" ">> : n \in joined}
       \cup {<<>>, <<" ">>}

InitVariants ==
  /\ ingredients = {}
  /\ ifra = {}
  /\ synonyms = {}
  /\ scraper = NewScraper(100, TRUE)
  /\ \E name \in VariantNames : last = [op |-> "name", name |-> name]

GetSearchVariants ==
  /\ last.op = "name"
  /\ last' = [op |-> "get_search_variants", name |-> last.name,
              normalized |-> normalize_ingredient_name(last.name),
              variants |-> get_search_variants(last.name)]
  /\ UNCHANGED <<ingredients, ifra, synonyms, scraper>>

NextVariants == GetSearchVariants

SpecVariants == InitVariants /\ [][NextVariants]_vars

---------------------------------------------------------------------------
(* The scraper: scraper.py.  A source is modelled by what it answers: the
   answer does not depend on the variant asked for. *)

\* stop=stop_after_attempt(3)
StopAfterAttempt == 3

\* _fetch under @retry, `gets` being what the successive session.get calls
\* meet ("200", "404", "500", "ConnectionError", "Timeout"; no modelled
\* server answers 429 and the response cache is empty): ConnectionError and
\* Timeout are retried until the attempts are used up and RetryError is
\* raised, a 404 response is returned, another error status raises HTTPError
RECURSIVE FetchAttempt(_, _)
FetchAttempt(gets, n) ==
  LET got == gets[IF n <= Len(gets) THEN n ELSE Len(gets)]
  IN IF got \in {"ConnectionError", "Timeout"}
     THEN IF n >= StopAfterAttempt
          THEN [raised |-> "RetryError", status_code |-> 0, attempts |-> n]
          ELSE FetchAttempt(gets, n + 1)
     ELSE IF got = "200" \/ got = "404"
          THEN [raised |-> "none", status_code |-> IF got = "200" THEN 200 ELSE 404,
                attempts |-> n]
          ELSE [raised |-> "HTTPError", status_code |-> 500, attempts |-> n]

fetch(gets) == FetchAttempt(gets, 1)

TgscModes == {"none", "data", "down"}

\* what the three strategies of search_tgsc meet: the direct search form,
\* DuckDuckGo, Google
TgscStrategies(mode) ==
  CASE mode = "data" -> <<"hit", "miss", "miss">>
    [] mode = "down" -> <<"error", "error", "error">>
    [] OTHER -> <<"miss", "miss", "miss">>

\* the IngredientProfile _parse_tgsc_page builds from the modelled page
TgscProfile(name) ==
  [name |-> Str(name), cas |-> Str(<<"c1">>),
   odor_description |-> Str(<<"p1">>), molecular_formula |-> None,
   molecular_weight |-> None, synonyms |-> <<>>]

\* search_tgsc: each strategy runs in its own try/except Exception, so an
\* error in one only moves on to the next; None when none finds a page
search_tgsc(mode, name) ==
  IF \E k \in 1..3 : TgscStrategies(mode)[k] = "hit"
  THEN TgscProfile(name) ELSE None

PubChemModes ==
  {"notfound", "data", "http500", "badjson", "unreachable", "flaky",
   "emptyprops"}

\* what the session.get calls for the compound search meet
PubChemGets(mode) ==
  CASE mode = "notfound" -> <<"404">>
    [] mode = "http500" -> <<"500">>
    [] mode = "unreachable" ->
         <<"ConnectionError", "ConnectionError", "ConnectionError">>
    [] mode = "flaky" -> <<"ConnectionError", "Timeout", "200">>
    [] OTHER -> <<"200">>

\* re.match(TGSCSelectors.CAS_PATTERN, syn) on the modelled synonyms
IsCas(s) == s \in {<<"c1">>, <<"c2">>}

PubChemSynonyms == << <<"Rose">>, <<"c2">> >>

\* the exceptions search_pubchem catches: requests.RequestException, and
\* (json.JSONDecodeError, KeyError)
PubChemCaught ==
  {"HTTPError", "ConnectionError", "Timeout", "JSONDecodeError", "KeyError"}

\* search_pubchem: [raised, data]; the property table of the modelled
\* compound is one empty record, or an empty list in mode "emptyprops"
search_pubchem(mode, name) ==
  LET response == fetch(PubChemGets(mode))
      casAt == FirstOf({i \in 1..Len(Take(PubChemSynonyms, 20)) :
                          IsCas(PubChemSynonyms[i])})
      found == [cid |-> PyInt(7), name |-> Str(name),
                cas |-> IF casAt = 0 THEN None ELSE Str(PubChemSynonyms[casAt]),
                molecular_formula |-> None, molecular_weight |-> Str(<<>>),
                iupac_name |-> None, synonyms |-> Take(PubChemSynonyms, 50)]
      raw == IF response.raised # "none"
             THEN [raised |-> response.raised, data |-> None]
             ELSE IF response.status_code = 404
                  THEN [raised |-> "none", data |-> None]
             ELSE IF mode = "badjson"
                  THEN [raised |-> "JSONDecodeError", data |-> None]
             ELSE IF mode = "emptyprops"
                  THEN [raised |-> "IndexError", data |-> None]
             ELSE [raised |-> "none", data |-> found]
  IN IF raw.raised \in PubChemCaught
     THEN [raised |-> "none", data |-> None] ELSE raw

---------------------------------------------------------------------------
(* Merging and the enrichment pipeline: enrichment.py *)

\* `kw in text` for a keyword of one or more atoms
Contains(text, kw) ==
  \E i \in 1..Len(text) :
    i + Len(kw) - 1 <= Len(text) /\ SubSeq(text, i, i + Len(kw) - 1) = kw

ContainsAny(text, kws) == \E kw \in kws : Contains(text, kw)

\* the one element of a singleton set
TheOne(S) == CHOOSE x \in S : TRUE

InferType(name_lower, profile_lower) ==
  IF ContainsAny(name_lower, {<<"essential", " ", "oil">>, <<" ", "eo", " ">>,
                              <<"oil", " ", "of">>})
  THEN Str(<<"EO">>)
  ELSE IF ContainsAny(name_lower, {<<"absolute">>, <<"concrete">>,
                                   <<"resinoid">>})
  THEN Str(<<"EO">>)
  ELSE IF ContainsAny(name_lower, {<<"alcohol">>, <<"ethanol">>, <<"dpg">>,
                                   <<"ipm">>})
  THEN Str(<<"Solvent">>)
  ELSE IF ContainsAny(name_lower, {<<"fractionated", " ", "coconut">>,
                                   <<"jojoba">>, <<"carrier">>})
  THEN Str(<<"Carrier">>)
  ELSE IF ContainsAny(name_lower, {<<"musk">>, <<"aldehyde">>, <<"ketone">>,
                                   <<"ester">>, <<"acetate">>, <<"ionone">>,
                                   <<"coumarin">>, <<"vanillin">>,
                                   <<"heliotropin">>})
  THEN Str(<<"AC">>)
  ELSE IF ContainsAny(profile_lower, {<<"synthetic">>,
                                      <<"aroma", " ", "chemical">>})
  THEN Str(<<"AC">>)
  ELSE IF ContainsAny(profile_lower, {<<"natural">>, <<"botanical">>})
  THEN Str(<<"EO">>)
  ELSE None

infer_ingredient_type(name, profile) ==
  TheOne({InferType(name_lower, profile_lower) :
            name_lower \in {Lower(name)},
            profile_lower \in {IF Truthy(profile) THEN Lower(profile.s)
                               ELSE <<>>}})

InferTenacity(name_lower) ==
  IF ContainsAny(name_lower,
       {<<"musk">>, <<"amber">>, <<"sandalwood">>, <<"vetiver">>,
        <<"patchouli">>, <<"oud">>, <<"benzoin">>, <<"vanilla">>, <<"tonka">>,
        <<"labdanum">>, <<"cedarwood">>, <<"oak">>, <<"leather">>})
  THEN Str(<<"24+ hours">>)
  ELSE IF ContainsAny(name_lower,
       {<<"lemon">>, <<"bergamot">>, <<"grapefruit">>, <<"mandarin">>,
        <<"lime">>, <<"eucalyptus">>, <<"mint">>, <<"basil">>})
  THEN Str(<<"2-4 hours">>)
  ELSE IF ContainsAny(name_lower,
       {<<"rose">>, <<"jasmine">>, <<"ylang">>, <<"geranium">>, <<"lavender">>,
        <<"iris">>, <<"violet">>})
  THEN Str(<<"6-12 hours">>)
  ELSE None

infer_tenacity(name, profile) ==
  TheOne({InferTenacity(name_lower) : name_lower \in {Lower(name)}})

\* the names enrich_ingredient is called with
EnrichNames == {<<"rose">>, <<" ", "Rose">>, <<" ">>, <<>>}

\* the two inferences tabulated over those names and the profiles a source
\* gives
InferredType ==
  [n \in EnrichNames, p \in {None, Str(<<"p1">>)} |->
     infer_ingredient_type(n, p)]

InferredTenacity ==
  [n \in EnrichNames, p \in {None, Str(<<"p1">>)} |-> infer_tenacity(n, p)]

\* set(synonyms): the distinct synonyms of both sources
SynonymSet(tgsc_data, pubchem_data) ==
  (IF tgsc_data # None THEN SeqRange(tgsc_data.synonyms) ELSE {})
    \cup (IF pubchem_data # None THEN SeqRange(pubchem_data.synonyms) ELSE {})

\* list(set(...)): the orders a set may be listed in
Orderings(S) ==
  {f \in [1..Cardinality(S) -> S] :
     \A i, j \in 1..Cardinality(S) : f[i] = f[j] => i = j}

\* a merge that prefers the PubChem CAS, as merge_ingredient_data of
\* api_server.py does
MergedCasPubChemFirst(tgsc_data, pubchem_data) ==
  IF pubchem_data # None /\ Truthy(pubchem_data.cas) THEN pubchem_data.cas
  ELSE IF tgsc_data # None /\ Truthy(tgsc_data.cas) THEN tgsc_data.cas
  ELSE None

\* "CAS Number: Prefer TGSC": merged.cas stays None when neither branch runs
MergedCas(tgsc_data, pubchem_data) ==
  IF tgsc_data # None /\ Truthy(tgsc_data.cas) THEN tgsc_data.cas
  ELSE IF pubchem_data # None /\ Truthy(pubchem_data.cas) THEN pubchem_data.cas
  ELSE None

\* merge_data_sources(name, tgsc_data, pubchem_data), `order` being the order
\* list(set(synonyms)) came out in
merge_data_sources(name, tgsc_data, pubchem_data, order) ==
  LET tgsc == tgsc_data # None
      pubchem == pubchem_data # None
      profile == IF tgsc /\ Truthy(tgsc_data.odor_description)
                 THEN tgsc_data.odor_description ELSE None
  IN [name |-> Str(name),
      cas |-> MergedCas(tgsc_data, pubchem_data),
      cid |-> IF pubchem THEN pubchem_data.cid ELSE None,
      chemical_name |-> IF pubchem /\ Truthy(pubchem_data.iupac_name)
                        THEN pubchem_data.iupac_name ELSE None,
      formula |-> IF pubchem /\ Truthy(pubchem_data.molecular_formula)
                  THEN pubchem_data.molecular_formula
                  ELSE IF tgsc /\ Truthy(tgsc_data.molecular_formula)
                       THEN tgsc_data.molecular_formula ELSE None,
      molecularWeight |-> IF pubchem /\ Truthy(pubchem_data.molecular_weight)
                          THEN pubchem_data.molecular_weight
                          ELSE IF tgsc /\ Truthy(tgsc_data.molecular_weight)
                               THEN tgsc_data.molecular_weight ELSE None,
      profile |-> profile,
      type |-> InferredType[name, profile],
      strength |-> None,
      tenacity |-> InferredTenacity[name, profile],
      appearance |-> None,
      flash_point |-> None,
      synonyms |-> Take(order, 50),
      sources |-> (IF tgsc THEN <<"TGSC">> ELSE <<>>) \o
                  (IF pubchem THEN <<"PubChem">> ELSE <<>>)]

\* MergedIngredientData.to_dict: the fields that are not None
to_dict(merged) ==
  [k \in {f \in {"name", "cas", "cid", "chemical_name", "formula",
                 "molecularWeight", "profile", "type", "strength", "tenacity",
                 "appearance", "flash_point"} : merged[f] # None}
     |-> merged[k]]

\* the loop `for variant in variants: tgsc_data = search_tgsc(variant)`:
\* the data it ends with and the searches it made, each of which posts the
\* direct search form
RECURSIVE TgscLoop(_, _, _)
TgscLoop(mode, variants, i) ==
  IF i > Len(variants) THEN [data |-> None, posts |-> Len(variants)]
  ELSE IF search_tgsc(mode, variants[i]) # None
       THEN [data |-> search_tgsc(mode, variants[i]), posts |-> i]
       ELSE TgscLoop(mode, variants, i + 1)

\* the loop `for variant in variants: pubchem_data = search_pubchem(variant)`
RECURSIVE PubChemLoop(_, _, _)
PubChemLoop(mode, variants, i) ==
  IF i > Len(variants) THEN [raised |-> "none", data |-> None]
  ELSE LET r == search_pubchem(mode, variants[i])
       IN IF r.raised # "none" \/ r.data # None THEN r
          ELSE PubChemLoop(mode, variants, i + 1)

\* an early return that is left out
NoDataFoundSkipped(tgsc_data, pubchem_data) == FALSE

\* `if not tgsc_data and not pubchem_data`
NoDataFound(tgsc_data, pubchem_data) ==
  tgsc_data = None /\ pubchem_data = None

\* ", ".join(merged.sources)
JoinSources(sources) ==
  IF Len(sources) = 2 THEN <<sources[1], ", ", sources[2]>> ELSE sources

\* `for synonym in merged.synonyms[:20]`, `call` counting the store calls the
\* run has made and `failAt` naming the store call at which the database fails
RECURSIVE AddSynonyms(_, _, _, _, _, _, _, _)
AddSynonyms(table, name, syns, call, failAt, source, cid, owner) ==
  IF syns = <<>> THEN [table |-> table, raised |-> "none"]
  ELSE IF Lower(Head(syns)) = Lower(name)
       THEN AddSynonyms(table, name, Tail(syns), call, failAt, source, cid,
                        owner)
  ELSE IF failAt = call + 1
       THEN [table |-> add_synonym(table, name, Head(syns), source, cid, owner,
                                   TRUE),
             raised |-> "DBError"]
  ELSE AddSynonyms(add_synonym(table, name, Head(syns), source, cid, owner,
                               FALSE),
                   name, Tail(syns), call + 1, failAt, source, cid, owner)

\* get_search_variants and the two search loops, tabulated over the names and
\* the answers of the sources
VariantsOf == [n \in EnrichNames |-> get_search_variants(n)]

TgscFound ==
  [m \in TgscModes, n \in EnrichNames |-> TgscLoop(m, VariantsOf[n], 1)]

PubChemFound ==
  [m \in PubChemModes, n \in EnrichNames |-> PubChemLoop(m, VariantsOf[n], 1)]

\* enrich_ingredient from `db.upsert_ingredient(ingredient_data, ...)` on, `up`
\* being what the upsert returned or raised
EnrichStore(result, syn, name, owner, failAt, merged, ingredient_data, up) ==
  LET upserted == [result EXCEPT !.ingredients = up.table,
                                 !.sources_used = merged.sources,
                                 !.was_created = up.created,
                                 !.updated_fields = DOMAIN ingredient_data,
                                 !.existing = up.existing,
                                 !.written = up.updated_fields]
      adds == AddSynonyms(syn, name, Take(merged.synonyms, 20), 1, failAt,
                          Str(JoinSources(merged.sources)), merged.cid, owner)
  IN IF up.raised # "none"
     THEN [result EXCEPT !.sources_used = merged.sources,
                         !.error_message = up.raised,
                         !.dbfailed = (up.raised = "DBError")]
     ELSE TheOne({IF a.raised # "none"
                  THEN [upserted EXCEPT !.synonyms = a.table,
                                        !.error_message = a.raised,
                                        !.dbfailed = TRUE]
                  ELSE [upserted EXCEPT !.synonyms = a.table,
                                        !.success = TRUE] : a \in {adds}})

\* enrich_ingredient from the check for data on, `tg` and `pc` being what the
\* two search loops ended with
EnrichFound(ing, syn, name, owner, fill_missing_only, failAt, existing, order, tg, pc) ==
  LET result == [ingredients |-> ing, synonyms |-> syn, success |-> FALSE,
                 was_created |-> FALSE, updated_fields |-> {},
                 error_message |-> "none", sources_used |-> <<>>,
                 posts |-> tg.posts, tgsc_data |-> tg.data,
                 pubchem_data |-> pc.data, dbfailed |-> FALSE,
                 existing |-> NoRow, written |-> {}]
  IN IF pc.raised # "none" THEN [result EXCEPT !.error_message = pc.raised]
     ELSE IF NoDataFound(tg.data, pc.data)
          THEN [result EXCEPT !.error_message = "No data found"]
     ELSE TheOne(
            {TheOne(
               {TheOne(
                  {EnrichStore(r, syn, name, owner, failAt, merged,
                               ingredient_data, up) :
                     up \in {upsert_ingredient(ing, ingredient_data,
                                               fill_missing_only, owner,
                                               existing, failAt = 1)}}) :
                  ingredient_data \in {to_dict(merged)}}) :
               merged \in {merge_data_sources(name, tg.data, pc.data, order)},
               r \in {result}})

\* enrich_ingredient(name, owner_id, fill_missing_only): the tables after the
\* call and the EnrichmentResult, with what the run met on its way
enrich_ingredient(ing, syn, name, owner_id, fill_missing_only, tgscMode, pubchemMode, failAt, existing, order) ==
  EnrichFound(ing, syn, name, OwnerOf(owner_id), fill_missing_only, failAt,
              existing, order, TgscFound[tgscMode, name],
              PubChemFound[pubchemMode, name])

---------------------------------------------------------------------------
(* Enrichment as an action *)

MaxFailAt == 3

\* the calls made: the name rose with one source answering or not finding it
\* against every answer of the other; every name, mode and database failure
\* with both sources answering; every name with both sources empty
EnrichInputs ==
  {i \in [name : EnrichNames, owner_id : {None}, fmo : BOOLEAN,
          tgsc : TgscModes, pubchem : PubChemModes, failAt : 0..MaxFailAt] :
     \/ /\ i.name = <<"rose">> /\ i.fmo /\ i.failAt = 0
        /\ (i.tgsc = "data" \/ i.pubchem \in {"data", "notfound"})
     \/ /\ i.tgsc = "data" /\ i.pubchem = "data"
        /\ (i.fmo \/ i.failAt = 0)
     \/ i.tgsc = "none" /\ i.pubchem = "notfound" /\ i.fmo /\ i.failAt = 0}

\* one call of enrich_ingredient with its arguments drawn from `inputs`
EnrichCall(inputs) ==
  \E i \in inputs :
    \E existing \in First(IngMatches(ingredients, Strip(i.name),
                                     OwnerOf(i.owner_id))),
       order \in Orderings(SynonymSet(TgscFound[i.tgsc, i.name].data,
                                      PubChemFound[i.pubchem, i.name].data)) :
         \E res \in {enrich_ingredient(ingredients, synonyms, i.name,
                                        i.owner_id, i.fmo, i.tgsc, i.pubchem,
                                        i.failAt, existing, order)} :
            /\ res.was_created => StoreSize < MaxRows
            /\ i.failAt # 0 => res.dbfailed
            /\ ingredients' = res.ingredients
            /\ synonyms' = res.synonyms
            /\ last' = [op |-> "enrich_ingredient", input |-> i,
                        owner |-> OwnerOf(i.owner_id),
                        pre |-> ingredients, pre_synonyms |-> synonyms,
                        existing |-> res.existing,
                        success |-> res.success,
                        was_created |-> res.was_created,
                        updated_fields |-> res.updated_fields,
                        written |-> res.written,
                        error_message |-> res.error_message,
                        posts |-> res.posts,
                        tgsc_found |-> res.tgsc_data # None,
                        pubchem_found |-> res.pubchem_data # None,
                        dbfailed |-> res.dbfailed,
                        repeat |-> /\ last.op = "enrich_ingredient"
                                   /\ last.input = i
                                   /\ i.fmo
                                   /\ i.failAt = 0]
            /\ UNCHANGED <<ifra, scraper>>

EnrichIngredient == EnrichCall(EnrichInputs)

NextEnrich == EnrichIngredient

SpecEnrich == Init /\ [][NextEnrich]_vars

---------------------------------------------------------------------------
(* add_synonym as an action, next to enrich_ingredient *)

MaxSynonymRows == 3

\* Synonym(ing=..., synonym=..., source=..., cid=..., owner_id=owner) as the
\* INSERT stores it
NewSynonym(table, ingredient_name, synonym, source, cid, owner) ==
  [id |-> PyInt(MaxId(table) + 1), ing |-> Str(ingredient_name),
   synonym |-> Str(synonym), source |-> source, cid |-> cid,
   owner_id |-> owner]

\* what add_synonym returns, `existing` being the row its query returned
SynonymReturned(table, ingredient_name, synonym, source, cid, owner_id, existing) ==
  IF existing # NoRow THEN existing
  ELSE NewSynonym(table, ingredient_name, synonym, source, cid,
                  OwnerOf(owner_id))

SynonymInputs ==
  [ingredient_name : {<<"rose">>}, synonym : {<<"c2">>, <<"x">>},
   source : {None}, cid : {None}, owner_id : OwnerInputs]

AddSynonym ==
  \E i \in SynonymInputs :
    \E existing \in First(SynMatches(synonyms, i.ingredient_name, i.synonym,
                                     OwnerOf(i.owner_id))) :
      /\ synonyms' = add_synonym(synonyms, i.ingredient_name, i.synonym,
                                 i.source, i.cid, i.owner_id, FALSE)
      /\ Cardinality(synonyms') <= MaxSynonymRows
      /\ last' = [op |-> "add_synonym", input |-> i,
                  owner |-> OwnerOf(i.owner_id), pre |-> synonyms,
                  existing |-> existing,
                  ret |-> SynonymReturned(synonyms, i.ingredient_name,
                                          i.synonym, i.source, i.cid,
                                          i.owner_id, existing)]
      /\ UNCHANGED <<ingredients, ifra, scraper>>

\* the enrichment runs next to add_synonym: both sources answer, so that the
\* synonym loop is reached, with and without a database failure on the way
SynonymEnrichInputs ==
  {i \in EnrichInputs :
     /\ i.name = <<"rose">>
     /\ i.tgsc = "data" /\ i.pubchem = "data" /\ i.fmo}

EnrichSynonyms == EnrichCall(SynonymEnrichInputs)

NextSynonyms == AddSynonym \/ EnrichSynonyms

SpecSynonyms == Init /\ [][NextSynonyms]_vars

---------------------------------------------------------------------------
(* The fetch layer: FragranceScraper._fetch with its cache, its rate limit
   and its retries.  Time is in seconds; a request takes no time, a sleep
   takes what it was asked for. *)

\* no more calls are made on the scraper than this
MaxCalls == 2

\* config.scraper.delay_seconds, config.scraper.cache_ttl_hours in seconds
DelaySeconds == 10
CacheTtlSeconds == 86400

\* response.headers.get("Retry-After", 30)
RetryAfterDefault == 30

\* wait_exponential(multiplier=1, min=2, max=30): the wait after attempt n
WaitMin == 2
WaitMax == 30
RECURSIVE Pow2(_)
Pow2(n) == IF n = 0 THEN 1 ELSE 2 * Pow2(n - 1)
WaitExponential(attempt_number) ==
  LET result == Pow2(attempt_number - 1)
      capped == IF result < WaitMax THEN result ELSE WaitMax
  IN IF capped > WaitMin THEN capped ELSE WaitMin

\* Retry-After header values: none, delay-seconds, an HTTP-date
Absent == [t |-> "absent", n |-> 0]
Seconds(n) == [t |-> "seconds", n |-> n]
HttpDate == [t |-> "date", n |-> 0]

\* what a session.get call meets: a response or an exception of requests
Response(status, text) ==
  [kind |-> "response", status_code |-> status, text |-> text,
   retry_after |-> Absent]

\* a 429 response with the given Retry-After header
TooMany(retry_after) ==
  [kind |-> "response", status_code |-> 429, text |-> "",
   retry_after |-> retry_after]
Exc(name) ==
  [kind |-> "exception", status_code |-> 0, text |-> name,
   retry_after |-> Absent]

\* the k-th session.get of a call meets the k-th item of the script, the
\* last item standing for all later ones
ScriptAt(script, k) == script[IF k <= Len(script) THEN k ELSE Len(script)]

\* an expiry test under which no entry ever expires
CacheExpiredNever(age) == FALSE

\* datetime.now() - cached_time > self.ttl
CacheExpired(age) == age > CacheTtlSeconds

\* ResponseCache.get: the entry served, or a miss; an expired file is
\* unlinked
CacheGet(cache, url, now) ==
  IF cache[url] = NoEntry THEN [hit |-> FALSE, cache |-> cache]
  ELSE IF CacheExpired(now - cache[url].cached_at)
       THEN [hit |-> FALSE, cache |-> [cache EXCEPT ![url] = NoEntry]]
       ELSE [hit |-> TRUE, cache |-> cache]

\* a cache that drops what it is given
CacheSetSkipped(cache, url, now, text, status_code) == cache

\* ResponseCache.set
CacheSet(cache, url, now, text, status_code) ==
  [cache EXCEPT ![url] = [cached_at |-> now, text |-> text,
                          status_code |-> status_code]]

\* _rate_limit: the clock after the sleep, which is _last_request_time
RateLimit(now, last_request_time) ==
  IF now - last_request_time < DelaySeconds
  THEN now + (DelaySeconds - (now - last_request_time))
  ELSE now

\* a predicate that retries every exception
RetriedAnyException(exc) == TRUE

\* retry_if_exception_type((requests.ConnectionError, requests.Timeout))
Retried(exc) == exc \in {"ConnectionError", "Timeout"}

\* what _fetch hands to its caller, with the scraper fields as they are then
FetchResult(st, raised, status_code, text, hit) ==
  [now |-> st.now, last_request_time |-> st.last_request_time,
   cache |-> st.cache, sends |-> st.sends, attempts |-> st.attempt,
   retried |-> st.retried, waits |-> st.waits, raised |-> raised,
   status_code |-> status_code,
   text |-> text, hit |-> hit]

\* an error handler that returns no error response
ReturnedStatusNever(status_code) == FALSE

\* "Don't retry 404s": `if e.response.status_code == 404: return e.response`
ReturnedStatus(status_code) == status_code = 404

\* _fetch under @retry.  `st` is the scraper during the call: its clock,
\* _last_request_time and cache, the number k of the next session.get, the
\* attempt number, the times of the requests sent and the exceptions retried
RECURSIVE FetchCall(_, _, _, _)

\* an exception leaves the body of _fetch: tenacity runs the body again
\* after the wait, raises RetryError once the attempts are used up, and
\* lets an exception that is not retried pass
FetchRaise(url, use_cache, script, st, exc) ==
  IF ~Retried(exc) THEN FetchResult(st, exc, 0, "", FALSE)
  ELSE IF st.attempt >= StopAfterAttempt
       THEN FetchResult(st, "RetryError", 0, "", FALSE)
       ELSE TheOne({FetchCall(url, use_cache, script, again) :
                      again \in {[st EXCEPT
                                   !.now = @ + WaitExponential(st.attempt),
                                   !.attempt = @ + 1,
                                   !.retried = @ \cup {exc},
                                   !.waits = Append(@,
                                     WaitExponential(st.attempt))]}})

\* from response.raise_for_status() on
FetchRespond(url, use_cache, script, st, response) ==
  IF response.status_code >= 400
  THEN IF ReturnedStatus(response.status_code)
       THEN FetchResult(st, "none", response.status_code, response.text,
                        FALSE)
       ELSE FetchRaise(url, use_cache, script, st, "HTTPError")
  ELSE FetchResult(
         [st EXCEPT !.cache =
            IF use_cache /\ st.cache_enabled
            THEN CacheSet(@, url, st.now, response.text, response.status_code)
            ELSE @],
         "none", response.status_code, response.text, FALSE)

\* the 429 branch: int() of a header that is not a number raises
\* ValueError; otherwise sleep and send the request once more
FetchTooMany(url, use_cache, script, st, response) ==
  IF response.retry_after.t = "date"
  THEN FetchRaise(url, use_cache, script, st, "ValueError")
  ELSE TheOne({IF ScriptAt(script, st.k).kind = "exception"
               THEN FetchRaise(url, use_cache, script, st2,
                               ScriptAt(script, st.k).text)
               ELSE FetchRespond(url, use_cache, script, st2,
                                 ScriptAt(script, st.k)) :
         st2 \in {[st EXCEPT
                    !.now = @ + (IF response.retry_after.t = "absent"
                                 THEN RetryAfterDefault
                                 ELSE response.retry_after.n),
                    !.k = @ + 1,
                    !.sends = Append(@,
                                st.now + (IF response.retry_after.t = "absent"
                                          THEN RetryAfterDefault
                                          ELSE response.retry_after.n))]}})

\* the body after a cache miss: _rate_limit, then session.get
FetchLive(url, use_cache, script, st) ==
  TheOne({IF ScriptAt(script, st.k).kind = "exception"
          THEN FetchRaise(url, use_cache, script, st1,
                          ScriptAt(script, st.k).text)
          ELSE IF ScriptAt(script, st.k).status_code = 429
          THEN FetchTooMany(url, use_cache, script, st1,
                            ScriptAt(script, st.k))
          ELSE FetchRespond(url, use_cache, script, st1,
                            ScriptAt(script, st.k)) :
    st1 \in {[st EXCEPT
               !.now = RateLimit(st.now, st.last_request_time),
               !.last_request_time = RateLimit(st.now, st.last_request_time),
               !.k = @ + 1,
               !.sends = Append(@, RateLimit(st.now,
                                             st.last_request_time))]}})

FetchCall(url, use_cache, script, st) ==
  IF use_cache /\ st.cache_enabled
  THEN IF CacheGet(st.cache, url, st.now).hit
       THEN FetchResult(st, "none", st.cache[url].status_code,
                        st.cache[url].text, TRUE)
       ELSE TheOne({FetchLive(url, use_cache, script, missed) :
              missed \in {[st EXCEPT
                            !.cache = CacheGet(st.cache, url, st.now).cache]}})
  ELSE FetchLive(url, use_cache, script, st)

\* the scraper as a call finds it, `elapsed` seconds after the call before
CallStart(elapsed) ==
  [now |-> scraper.now + elapsed, cache_enabled |-> scraper.cache_enabled,
   last_request_time |-> scraper.last_request_time, cache |-> scraper.cache,
   k |-> 1, attempt |-> 1, sends |-> <<>>, retried |-> {}, waits |-> <<>>]

\* the scraper as a call leaves it
CallEnd(res) ==
  [now |-> res.now, cache_enabled |-> scraper.cache_enabled,
   last_request_time |-> res.last_request_time, cache |-> res.cache,
   sent |-> IF res.sends = <<>> THEN scraper.sent
            ELSE res.sends[Len(res.sends)],
   calls |-> scraper.calls + 1]

\* what the servers do during a call
FetchScripts ==
  {<<Response(200, "b1")>>, <<Response(200, "b2")>>, <<Response(404, "nf")>>,
   <<Response(500, "err")>>,
   <<TooMany(Absent), Response(200, "b1")>>,
   <<TooMany(Seconds(1)), Response(200, "b1")>>,
   <<TooMany(Seconds(60)), Response(500, "err")>>,
   <<TooMany(Absent), TooMany(Absent)>>,
   <<TooMany(Absent), Response(404, "nf")>>,
   <<TooMany(HttpDate), Response(200, "b1")>>,
   <<TooMany(Absent), Exc("Timeout"), Response(200, "b1")>>,
   <<Exc("ConnectionError")>>,
   <<Exc("Timeout"), Exc("ConnectionError"), Exc("Timeout")>>,
   <<Exc("Timeout"), Exc("ConnectionError"), Response(200, "b1")>>,
   <<Exc("ConnectionError"), Response(500, "err")>>}

\* the seconds between two calls: none, less than the delay, the delay, an
\* hour less and an hour more than the cache TTL
Elapsed == {0, 3, DelaySeconds, CacheTtlSeconds - 3600, CacheTtlSeconds + 3600}

\* the calls of _fetch made: every script on one URL with the cache, two
\* scripts without it and two on another URL
FetchInputs ==
  {i \in [url : URLs, use_cache : BOOLEAN, script : FetchScripts,
          elapsed : Elapsed] :
     \/ i.url = "u1" /\ i.use_cache
     \/ i.script \in {<<Response(200, "b1")>>, <<Response(200, "b2")>>}}

InitFetch ==
  /\ ingredients = {}
  /\ ifra = {}
  /\ synonyms = {}
  /\ \E cache_enabled \in BOOLEAN : scraper = NewScraper(100, cache_enabled)
  /\ last = [op |-> "init"]

FetchUrl ==
  /\ scraper.calls < MaxCalls
  /\ \E i \in FetchInputs :
       \E res \in {FetchCall(i.url, i.use_cache, i.script,
                             CallStart(i.elapsed))} :
         /\ scraper' = CallEnd(res)
         /\ last' = [op |-> "_fetch", input |-> i, pre |-> scraper,
                     at |-> scraper.now + i.elapsed,
                     raised |-> res.raised, status_code |-> res.status_code,
                     text |-> res.text, hit |-> res.hit, sends |-> res.sends,
                     attempts |-> res.attempts, retried |-> res.retried,
                     waits |-> res.waits]
  /\ UNCHANGED <<ingredients, ifra, synonyms>>

NextFetch == FetchUrl

SpecFetch == InitFetch /\ [][NextFetch]_vars

---------------------------------------------------------------------------
(* search_tgsc on the fetch layer: the three lookup strategies *)

\* _parse_tgsc_page: the page "b1" holds a CAS number and an odor
\* description, any other page no useful data
ParsesToProfile(text) == text = "b1"

\* what the fetch of a found page meets
PageScripts ==
  {<<Response(200, "b1")>>, <<Response(200, "b2")>>,
   <<Exc("ConnectionError")>>}

\* what a strategy meets: its search raises, finds no page, or finds the
\* page of the ingredient, which is then fetched
TgscOutcomes ==
  {[finds |-> f, script |-> <<Response(200, "b1")>>] :
     f \in {"raises", "nopage"}}
    \cup {[finds |-> "page", script |-> sc] : sc \in PageScripts}

\* the scraper between two fetches of one search
Refreshed(res) ==
  [now |-> res.now, cache_enabled |-> scraper.cache_enabled,
   last_request_time |-> res.last_request_time, cache |-> res.cache,
   k |-> 1, attempt |-> 1, sends |-> res.sends, retried |-> {},
   waits |-> <<>>]

\* _rate_limit and session.post of the direct search
Posted(st) ==
  [st EXCEPT !.now = RateLimit(st.now, st.last_request_time),
             !.last_request_time = RateLimit(st.now, st.last_request_time),
             !.sends = Append(@, RateLimit(st.now, st.last_request_time))]

\* what search_tgsc returns: whether it is a profile, and how many of the
\* strategies were tried
SearchResult(st, found, tried) ==
  [now |-> st.now, last_request_time |-> st.last_request_time,
   cache |-> st.cache, sends |-> st.sends, found |-> found, tried |-> tried]

\* search_tgsc from strategy k on.  An exception inside a strategy is caught
\* by its `except Exception`; the direct search goes on when its page gives
\* no profile, the two text searches return what _fetch_and_parse_tgsc gave
RECURSIVE SearchFrom(_, _, _)
SearchFrom(strategies, k, st) ==
  IF k > 3 THEN SearchResult(st, FALSE, 3)
  ELSE IF strategies[k].finds # "page"
  THEN SearchFrom(strategies, k + 1, st)
  ELSE TheOne({
         IF res.raised # "none"
         THEN TheOne({SearchFrom(strategies, k + 1, after) :
                        after \in {Refreshed(res)}})
         ELSE IF res.status_code = 200 /\ ParsesToProfile(res.text)
         THEN SearchResult(res, TRUE, k)
         ELSE IF k = 1
         THEN TheOne({SearchFrom(strategies, k + 1, after) :
                        after \in {Refreshed(res)}})
         ELSE SearchResult(res, FALSE, k) :
       res \in {FetchCall("u1", TRUE, strategies[k].script, st)}})

SearchInputs ==
  [strategies : [1..3 -> TgscOutcomes], elapsed : {0, DelaySeconds}]

SearchTgsc ==
  /\ scraper.calls < MaxCalls
  /\ \E i \in SearchInputs :
       \E res \in {TheOne({SearchFrom(i.strategies, 1, posted) :
                             posted \in {Posted(CallStart(i.elapsed))}})} :
         /\ scraper' = CallEnd(res)
         /\ last' = [op |-> "search_tgsc", input |-> i, pre |-> scraper,
                     at |-> scraper.now + i.elapsed, found |-> res.found,
                     tried |-> res.tried, sends |-> res.sends]
  /\ UNCHANGED <<ingredients, ifra, synonyms>>

NextScraper == FetchUrl \/ SearchTgsc

SpecScraper == InitFetch /\ [][NextScraper]_vars

---------------------------------------------------------------------------
(* _parse_percentage of ifra_sync.py.  A cell of the CSV is a sequence of
   characters; a float is held in thousandths. *)

Digits == {"0", "1", "5"}
DigitVal(c) == CASE c = "0" -> 0 [] c = "1" -> 1 [] OTHER -> 5

\* str.upper() on the characters of the cells
UpperChar(c) ==
  CASE c = "p" -> "P" [] c = "r" -> "R" [] c = "o" -> "O" [] c = "h" -> "H"
    [] c = "i" -> "I" [] c = "b" -> "B" [] c = "t" -> "T" [] c = "n" -> "N"
    [] OTHER -> c
Upper(s) == [i \in 1..Len(s) |-> UpperChar(s[i])]

\* value.replace("%", "")
RECURSIVE RemovePercent(_)
RemovePercent(s) ==
  IF s = <<>> THEN <<>>
  ELSE IF Head(s) = "%" THEN RemovePercent(Tail(s))
  ELSE <<Head(s)>> \o RemovePercent(Tail(s))

\* the digits of s read as a whole number
RECURSIVE WholeNumber(_)
WholeNumber(s) ==
  IF s = <<>> THEN 0
  ELSE 10 * WholeNumber(SubSeq(s, 1, Len(s) - 1)) + DigitVal(s[Len(s)])

\* float(value) on a string of digits, "." and "-": [ok, n], n in
\* thousandths; ValueError (ok = FALSE) for anything but an optional sign
\* and digits with at most one point and at most three decimals here
ParseFloat(s) ==
  LET neg == s # <<>> /\ Head(s) = "-"
      body == IF neg THEN Tail(s) ELSE s
      dots == {i \in 1..Len(body) : body[i] = "."}
      dot == IF dots = {} THEN Len(body) + 1 ELSE CHOOSE i \in dots : TRUE
      whole == SubSeq(body, 1, dot - 1)
      frac == SubSeq(body, dot + 1, Len(body))
      wellFormed ==
        /\ Cardinality(dots) <= 1
        /\ \A i \in 1..Len(body) : body[i] \in Digits \cup {"."}
        /\ Len(whole) + Len(frac) >= 1
        /\ Len(frac) <= 3
      scale == CASE Len(frac) = 0 -> 1000 [] Len(frac) = 1 -> 100
                 [] Len(frac) = 2 -> 10 [] OTHER -> 1
      n == 1000 * WholeNumber(whole) + scale * WholeNumber(frac)
  IN IF wellFormed THEN [ok |-> TRUE, n |-> IF neg THEN 0 - n ELSE n]
     ELSE [ok |-> FALSE, n |-> 0]

StartsWith(s, prefix) ==
  Len(prefix) <= Len(s) /\ SubSeq(s, 1, Len(prefix)) = prefix

Prohibit == <<"P", "R", "O", "H", "I", "B", "I", "T">>

\* value.startswith("P") or "PROHIBIT" in value
IsProhibited(value) == StartsWith(value, <<"P">>) \/ Contains(value, Prohibit)

\* _parse_percentage(value), in thousandths
parse_percentage(value) ==
  IF Strip(value) \in {<<"-">>, <<"N", "/", "A">>, <<"N", "R">>, <<>>}
  THEN 100000
  ELSE IF IsProhibited(Upper(Strip(value))) THEN 0
  ELSE TheOne({IF parsed.ok THEN parsed.n ELSE 100000 :
         parsed \in {ParseFloat(Strip(RemovePercent(Upper(Strip(value)))))}})

\* the cells parsed: every string of up to three of these characters, and
\* some longer ones
CellChars == {"0", "1", "5", ".", "%", "-", "P", "p", "N", "R", " "}

CellInputs ==
  {<<>>} \cup {<<a>> : a \in CellChars}
    \cup {<<a, b>> : a \in CellChars, b \in CellChars}
    \cup {<<a, b, c>> : a \in CellChars, b \in CellChars, c \in CellChars}
    \cup {<<"0", ".", "5", "%">>, <<"N", "/", "A">>, <<"n", "/", "a">>,
          <<"P", "r", "o", "h", "i", "b", "i", "t", "e", "d">>,
          <<"n", "o", "t", " ", "p", "r", "o", "h", "i", "b", "i", "t", "e",
            "d">>,
          <<" ", "0", ".", "0", "5", " ", "%", " ">>}

InitPercentage ==
  /\ ingredients = {}
  /\ ifra = {}
  /\ synonyms = {}
  /\ scraper = NewScraper(100, TRUE)
  /\ \E value \in CellInputs : last = [op |-> "cell", value |-> value]

ParsePercentage ==
  /\ last.op = "cell"
  /\ last' = [op |-> "_parse_percentage", value |-> last.value,
              result |-> parse_percentage(last.value)]
  /\ UNCHANGED <<ingredients, ifra, synonyms, scraper>>

SpecPercentage == InitPercentage /\ [][ParsePercentage]_vars

---------------------------------------------------------------------------
(* Two request threads of the API server in _rate_limit of the one scraper
   get_scraper() returns.  The method takes no lock, so its statements
   interleave; the clock moves in seconds. *)

\* the clock stops this many seconds after the start
MaxTicks == 12

Threads == {1, 2}

InitThreads ==
  /\ ingredients = {}
  /\ ifra = {}
  /\ synonyms = {}
  /\ scraper = [now |-> 100, last_request_time |-> 0,
                pc |-> [t \in Threads |-> "start"],
                wake |-> [t \in Threads |-> 0],
                sent |-> [t \in Threads |-> -1]]
  /\ last = [op |-> "threads"]

\* elapsed = time.time() - self._last_request_time; if elapsed < delay
Check(t) ==
  /\ scraper.pc[t] = "start"
  /\ scraper' =
       IF scraper.now - scraper.last_request_time < DelaySeconds
       THEN [scraper EXCEPT
               !.pc[t] = "sleeping",
               !.wake[t] = scraper.now + (DelaySeconds -
                             (scraper.now - scraper.last_request_time))]
       ELSE [scraper EXCEPT !.pc[t] = "checked"]
  /\ UNCHANGED <<ingredients, ifra, synonyms, last>>

\* time.sleep(sleep_time) returns
Wake(t) ==
  /\ scraper.pc[t] = "sleeping"
  /\ scraper.now >= scraper.wake[t]
  /\ scraper' = [scraper EXCEPT !.pc[t] = "checked"]
  /\ UNCHANGED <<ingredients, ifra, synonyms, last>>

\* self._last_request_time = time.time()
Stamp(t) ==
  /\ scraper.pc[t] = "checked"
  /\ scraper' = [scraper EXCEPT !.pc[t] = "stamped",
                                !.last_request_time = scraper.now]
  /\ UNCHANGED <<ingredients, ifra, synonyms, last>>

\* self.session.get(...)
Send(t) ==
  /\ scraper.pc[t] = "stamped"
  /\ scraper' = [scraper EXCEPT !.pc[t] = "done", !.sent[t] = scraper.now]
  /\ UNCHANGED <<ingredients, ifra, synonyms, last>>

Tick ==
  /\ scraper.now < 100 + MaxTicks
  /\ scraper' = [scraper EXCEPT !.now = @ + 1]
  /\ UNCHANGED <<ingredients, ifra, synonyms, last>>

NextThreads ==
  \/ \E t \in Threads : Check(t) \/ Wake(t) \/ Stamp(t) \/ Send(t)
  \/ Tick

SpecThreads == InitThreads /\ [][NextThreads]_vars

---------------------------------------------------------------------------
(* merge_data_sources called on its own: enrichment.py:280 *)

\* the source with the most synonyms holds the names x, xx, ... up to this
\* many letters
MaxSynonym == 51

\* the synonym made of k letters, and the list of those of lo..hi letters
XName(k) == [i \in 1..k |-> "x"]
XRange(lo, hi) == [k \in 1..(hi - lo + 1) |-> XName(lo + k - 1)]

\* a set of strings listed shortest first
RECURSIVE ByLength(_)
ByLength(S) ==
  IF S = {} THEN <<>>
  ELSE LET s == CHOOSE x \in S : \A y \in S : Len(x) <= Len(y)
       IN <<s>> \o ByLength(S \ {s})

Rotate(seq, r) ==
  [i \in 1..Len(seq) |-> seq[((i - 1 + r) % Len(seq)) + 1]]

\* the hash seed of an interpreter process (PYTHONHASHSEED, random unless
\* set): the iteration order of a set of str is a function of the set and
\* of the seed, here the listing rotated by the seed
HashSeeds == 0..2

\* list(set(synonyms)) in a process with hash seed `seed`
ListOfSet(S, seed) ==
  IF S = {} THEN <<>>
  ELSE TheOne({Rotate(listing, seed) : listing \in {ByLength(S)}})

MergeNames == {<<"rose">>, <<" ", "Rose">>}

\* IngredientProfile values: no CAS, an empty CAS, a CAS; no synonyms or two
MergeTgscInputs ==
  {None} \cup
  {[name |-> Str(<<"rose">>), cas |-> c, odor_description |-> Str(<<"p1">>),
    molecular_formula |-> None, molecular_weight |-> None,
    synonyms |-> syn] :
     c \in {None, Str(<<>>), Str(<<"8000-00-0">>)},
     syn \in {<<>>, XRange(1, 2)}}

\* PubChemData values: search_pubchem keeps at most 50 synonyms
MergePubChemInputs ==
  {None} \cup
  {[cid |-> PyInt(7), name |-> Str(<<"rose">>), cas |-> c,
    molecular_formula |-> None, molecular_weight |-> Str(<<>>),
    iupac_name |-> None, synonyms |-> syn] :
     c \in {None, Str(<<"9999-99-9">>)},
     syn \in {<<>>, XRange(2, 3), XRange(2, MaxSynonym)}}

\* the arguments of a call, and the hash seeds of the two processes it is
\* made in
InitMerge ==
  /\ ingredients = {}
  /\ ifra = {}
  /\ synonyms = {}
  /\ scraper = NewScraper(100, TRUE)
  /\ \E name \in MergeNames, t \in MergeTgscInputs, p \in MergePubChemInputs,
        seed \in HashSeeds, seed_again \in HashSeeds :
       last = [op |-> "arguments", name |-> name, tgsc_data |-> t,
               pubchem_data |-> p, seed |-> seed, seed_again |-> seed_again]

\* merge_data_sources called with the same arguments in the two processes
MergeDataSources ==
  /\ last.op = "arguments"
  /\ \E order \in {ListOfSet(SynonymSet(last.tgsc_data, last.pubchem_data),
                              last.seed)},
        order_again \in {ListOfSet(SynonymSet(last.tgsc_data,
                                              last.pubchem_data),
                                   last.seed_again)} :
       last' = [op |-> "merge_data_sources", name |-> last.name,
                tgsc_data |-> last.tgsc_data,
                pubchem_data |-> last.pubchem_data,
                seed |-> last.seed, seed_again |-> last.seed_again,
                merged |-> merge_data_sources(last.name, last.tgsc_data,
                                              last.pubchem_data, order),
                merged_again |-> merge_data_sources(last.name,
                                   last.tgsc_data, last.pubchem_data,
                                   order_again)]
  /\ UNCHANGED <<ingredients, ifra, synonyms, scraper>>

NextMerge == MergeDataSources

SpecMerge == InitMerge /\ [][NextMerge]_vars

---------------------------------------------------------------------------
(* FragranceScraper._parse_tgsc_page.  A page is the text outside its tables,
   what the odor pattern finds in the page text, and the table rows with two
   cells or more, in document order.  Labels and label patterns are sequences
   of fragments, so that `lbl in label` is Contains.  The profile keeps the
   fields cas, odor_description, odor_family and molecular_weight; the rows of
   the model carry no label of another branch of the two chains. *)

MaxTableRows == 2

\* TGSCSelectors.LABEL_PATTERNS, for the fields kept
LABEL_PATTERNS ==
  [cas |-> {<<"cas", " ", "number">>, <<"cas">>, <<"cas", "#">>,
            <<"cas", " ", "no">>},
   odor |-> {<<"odor", " ", "description">>, <<"odor">>, <<"aroma">>,
             <<"smell">>},
   odor_type |-> {<<"odor", " ", "type">>, <<"odor", " ", "family">>,
                  <<"family">>, <<"note">>},
   molecular_weight |-> {<<"molecular", " ", "weight">>,
                         <<"mol", " ", "weight">>, <<"mw">>}]

\* any(lbl in label for lbl in TGSCSelectors.LABEL_PATTERNS[key])
LabelIn(key, label) == ContainsAny(label, LABEL_PATTERNS[key])

\* re.search(TGSCSelectors.CAS_PATTERN, value).group(1), None without a match
CasSearch(value) ==
  TheOne({IF at = 0 THEN None ELSE Str(<<value[at]>>) :
            at \in {FirstOf({i \in 1..Len(value) : IsCas(<<value[i]>>)})}})

\* len(value): a fragment is one character, a CAS number seven or more
CharLen(value) ==
  Len(value) + 6 * Cardinality({i \in 1..Len(value) : IsCas(<<value[i]>>)})

\* IngredientProfile(name=name), for the fields kept
EmptyProfile ==
  [cas |-> None, odor_description |-> None, odor_family |-> None,
   molecular_weight |-> None]

\* the first table pass on one row
FirstPassRow(profile, row) ==
  IF Contains(row.label, <<"cas">>) /\ ~Truthy(profile.cas)
  THEN IF CasSearch(row.value) # None
       THEN [profile EXCEPT !.cas = CasSearch(row.value)] ELSE profile
  ELSE IF LabelIn("odor", row.label)
  THEN IF CharLen(row.value) > 3
       THEN [profile EXCEPT !.odor_description = Str(row.value)] ELSE profile
  ELSE IF LabelIn("odor_type", row.label)
  THEN IF row.value # <<>>
       THEN [profile EXCEPT !.odor_family = Str(row.value)] ELSE profile
  ELSE IF LabelIn("molecular_weight", row.label)
  THEN [profile EXCEPT !.molecular_weight = Str(row.value)]
  ELSE profile

\* the second table pass ("fallback method") on one row
SecondPassRow(profile, row) ==
  IF LabelIn("cas", row.label)
  THEN IF CasSearch(row.value) # None
       THEN [profile EXCEPT !.cas = CasSearch(row.value)] ELSE profile
  ELSE IF LabelIn("odor", row.label)
  THEN IF ~Truthy(profile.odor_description)
       THEN [profile EXCEPT !.odor_description = Str(row.value)] ELSE profile
  ELSE IF LabelIn("odor_type", row.label)
  THEN [profile EXCEPT !.odor_family = Str(row.value)]
  ELSE IF LabelIn("molecular_weight", row.label)
  THEN [profile EXCEPT !.molecular_weight = Str(row.value)]
  ELSE profile

\* `for table in tables: for row in rows:` of the first and second pass
RECURSIVE FirstPass(_, _)
FirstPass(profile, rows) ==
  IF rows = <<>> THEN profile
  ELSE FirstPass(FirstPassRow(profile, Head(rows)), Tail(rows))

RECURSIVE SecondPass(_, _)
SecondPass(profile, rows) ==
  IF rows = <<>> THEN profile
  ELSE SecondPass(SecondPassRow(profile, Head(rows)), Tail(rows))

\* soup.get_text() as far as the CAS pattern sees it: the text outside the
\* tables, then the cells
RECURSIVE PageText(_, _)
PageText(text, rows) ==
  IF rows = <<>> THEN text
  ELSE PageText(text \o Head(rows).label \o Head(rows).value, Tail(rows))

\* "Fallback to text parsing if tables failed"
TextFallback(profile, page) ==
  LET cas == CasSearch(PageText(page.text, page.rows))
      p1 == IF ~Truthy(profile.cas) /\ cas # None
            THEN [profile EXCEPT !.cas = cas] ELSE profile
  IN IF ~Truthy(p1.odor_description) /\ page.odor_match # None
        /\ CharLen(page.odor_match.s) > 3
     THEN [p1 EXCEPT !.odor_description = page.odor_match] ELSE p1

\* _parse_tgsc_page(page_content, name): the profile, or None when it holds
\* neither a CAS nor an odor description nor an odor family
parse_tgsc_page(page) ==
  TheOne({IF Truthy(p.cas) \/ Truthy(p.odor_description)
             \/ Truthy(p.odor_family)
          THEN p ELSE None :
            p \in {SecondPass(TextFallback(FirstPass(EmptyProfile, page.rows),
                                           page),
                              page.rows)}})

\* rows of a TGSC page: a label of each field kept, with a CAS number, a word
\* of more than three letters, one of three letters, or an empty cell
TableRows ==
  [label : {<<"cas", " ", "number">>, <<"odor", " ", "description">>,
            <<"family">>, <<"molecular", " ", "weight">>},
   value : {<<"c1">>, <<"c2">>, <<"r", "o", "s", "y">>, <<"d", "r", "y">>,
            <<>>}]

PageInputs ==
  [text : {<<>>, <<"c2">>},
   odor_match : {None, Str(<<"m", "u", "s", "k", "y">>)},
   rows : UNION {[1..n -> TableRows] : n \in 0..MaxTableRows}]

InitParse ==
  /\ ingredients = {}
  /\ ifra = {}
  /\ synonyms = {}
  /\ scraper = NewScraper(100, TRUE)
  /\ \E page \in PageInputs : last = [op |-> "page", page |-> page]

ParseTgscPage ==
  /\ last.op = "page"
  /\ last' = [op |-> "_parse_tgsc_page", page |-> last.page,
              ret |-> parse_tgsc_page(last.page)]
  /\ UNCHANGED <<ingredients, ifra, synonyms, scraper>>

SpecParse == InitParse /\ [][ParseTgscPage]_vars

---------------------------------------------------------------------------
(* sync_ifra_library: the rows of the CSV file parsed into entries by
   parse_ifra_csv, then each entry upserted with upsert_ifra_entry *)

MaxCsvRows == 2

\* row[idx].strip() or None
StripOrNone(cell) == IF Strip(cell) = <<>> THEN None ELSE Str(Strip(cell))

\* IFRAEntry(...).to_dict() of a data row, for the columns kept; the category
\* limit in tenths
EntryOf(row) ==
  [name |-> Str(Strip(row.name)), cas |-> StripOrNone(row.cas),
   type |-> StripOrNone(row.type),
   cat1 |-> Float10(parse_percentage(row.cat1) \div 100)]

\* parse_ifra_csv: a row with an empty name cell gives no entry
RECURSIVE parse_ifra_csv(_)
parse_ifra_csv(rows) ==
  IF rows = <<>> THEN <<>>
  ELSE IF Strip(Head(rows).name) = <<>> THEN parse_ifra_csv(Tail(rows))
  ELSE <<EntryOf(Head(rows))>> \o parse_ifra_csv(Tail(rows))

\* "Process each entry": the results the loop can end with, from the table
\* and the counts `result` it has reached
RECURSIVE SyncEntries(_, _, _, _)
SyncEntries(entries, fill_missing_only, owner, result) ==
  IF entries = <<>> THEN {result}
  ELSE UNION
    {TheOne(
       {SyncEntries(Tail(entries), fill_missing_only, owner,
          IF up.raised # "none"
          THEN [result EXCEPT !.skipped = @ + 1]
          ELSE IF up.created
               THEN [result EXCEPT !.table = up.table, !.inserted = @ + 1]
               ELSE [result EXCEPT !.table = up.table, !.updated = @ + 1]) :
          up \in {upsert_ifra_entry(result.table, Head(entries),
                                    fill_missing_only, owner, existing,
                                    FALSE)}}) :
       existing \in First(IfraMatches(result.table,
                                      Strip(GetOrEmpty(Head(entries), "cas").s),
                                      Strip(GetOrEmpty(Head(entries), "name").s),
                                      OwnerOf(owner)))}

\* the data rows of the CSV file: names with and without blanks, a blank
\* name, with a CAS cell that is filled or empty
CsvRows ==
  [name : {<<"rose">>, <<" ", "Rose">>, <<" ">>}, cas : {<<>>, <<"c1">>},
   type : {<<>>}, cat1 : {<<"5">>}]

SyncInputs == UNION {[1..n -> CsvRows] : n \in 1..MaxCsvRows}

SyncIfraLibrary ==
  \E rows \in SyncInputs, fmo \in BOOLEAN :
    \E entries \in {parse_ifra_csv(rows)} :
      \E res \in SyncEntries(entries, fmo, None,
                             [table |-> ifra, inserted |-> 0, updated |-> 0,
                              skipped |-> 0]) :
        /\ Cardinality(res.table) + Cardinality(ingredients) <= MaxRows
        /\ ifra' = res.table
        /\ last' = [op |-> "sync_ifra_library", rows |-> rows, fmo |-> fmo,
                    pre |-> ifra, total_entries |-> Len(entries),
                    inserted |-> res.inserted, updated |-> res.updated,
                    skipped |-> res.skipped]
        /\ UNCHANGED <<ingredients, synonyms, scraper>>

NextSync == UpsertIfraEntry \/ SyncIfraLibrary

SpecSync == Init /\ [][NextSync]_vars

---------------------------------------------------------------------------
(* The lookup endpoint's merge, api_server.py, next to the enrichment merge *)

\* merge_ingredient_data(name, tgsc, pubchem): the TGSC values first, then the
\* PubChem values over them; odor_family and fema, which the profiles of the
\* model do not carry, are left out
merge_ingredient_data(name, tgsc, pubchem) ==
  LET t == tgsc # None
      p == pubchem # None
      Over(first, second) ==
        IF p /\ Truthy(second) THEN second
        ELSE IF t /\ Truthy(first) THEN first ELSE None
  IN [name |-> Str(name),
      cas |-> Over(IF t THEN tgsc.cas ELSE None,
                   IF p THEN pubchem.cas ELSE None),
      formula |-> Over(IF t THEN tgsc.molecular_formula ELSE None,
                       IF p THEN pubchem.molecular_formula ELSE None),
      molecular_weight |-> Over(IF t THEN tgsc.molecular_weight ELSE None,
                                IF p THEN pubchem.molecular_weight ELSE None),
      iupac_name |-> IF p /\ Truthy(pubchem.iupac_name)
                     THEN pubchem.iupac_name ELSE None,
      cid |-> IF p /\ Truthy(pubchem.cid) THEN pubchem.cid ELSE None,
      odor_description |-> IF t /\ Truthy(tgsc.odor_description)
                           THEN tgsc.odor_description ELSE None,
      synonyms |-> IF p THEN Take(pubchem.synonyms, 10) ELSE <<>>,
      sources |-> (IF t THEN <<"TGSC">> ELSE <<>>) \o
                  (IF p THEN <<"PubChem">> ELSE <<>>)]

\* profiles of the two sources: each of CAS number, formula and weight given
\* or not, the sources giving different values
LookupTgscInputs ==
  {None} \cup
  {[name |-> Str(<<"rose">>), cas |-> c, odor_description |-> Str(<<"p1">>),
    molecular_formula |-> f, molecular_weight |-> w, synonyms |-> <<>>] :
     c \in {None, Str(<<"8000-00-0">>)},
     f \in {None, Str(<<"C10H18O">>)},
     w \in {None, Str(<<>>), Str(<<"154.25">>)}}

LookupPubChemInputs ==
  {None} \cup
  {[cid |-> PyInt(7), name |-> Str(<<"rose">>), cas |-> c,
    molecular_formula |-> f, molecular_weight |-> w, iupac_name |-> None,
    synonyms |-> XRange(2, 3)] :
     c \in {None, Str(<<"9999-99-9">>)},
     f \in {None, Str(<<"C9H16O">>)},
     w \in {None, Str(<<>>), Str(<<"140.22">>)}}

InitLookup ==
  /\ ingredients = {}
  /\ ifra = {}
  /\ synonyms = {}
  /\ scraper = NewScraper(100, TRUE)
  /\ \E name \in MergeNames, t \in LookupTgscInputs,
        p \in LookupPubChemInputs :
       last = [op |-> "arguments", name |-> name, tgsc_data |-> t,
               pubchem_data |-> p]

\* both merges called with the same profiles
MergeBoth ==
  /\ last.op = "arguments"
  /\ \E order \in {ListOfSet(SynonymSet(last.tgsc_data, last.pubchem_data),
                              0)} :
       last' = [op |-> "merge", name |-> last.name,
                tgsc_data |-> last.tgsc_data,
                pubchem_data |-> last.pubchem_data,
                lookup |-> merge_ingredient_data(last.name, last.tgsc_data,
                                                 last.pubchem_data),
                enrichment |-> merge_data_sources(last.name, last.tgsc_data,
                                                  last.pubchem_data, order)]
  /\ UNCHANGED <<ingredients, ifra, synonyms, scraper>>

SpecLookup == InitLookup /\ [][MergeBoth]_vars

---------------------------------------------------------------------------
(* Claims about the safe-upsert policy, checked under Spec *)

LastIsUpsert == last.op \in {"upsert_ingredient", "upsert_ifra_entry"}

\* the table the last upsert worked on, as it is now
TableNow == IF last.op = "upsert_ifra_entry" THEN ifra ELSE ingredients

\* a value that is non-null, not the empty string and not 100.0
Populated(v) ==
  /\ v.t # "none"
  /\ ~(v.t = "str" /\ v.s = <<>>)
  /\ ~(v.t = "float" /\ v.n = NoRestriction10)

\* C1: a fill-missing-only upsert (upsert_ingredient or upsert_ifra_entry) that
\* finds an existing record leaves every field of it whose value is non-null,
\* not "" and not 100.0 as it was, in the stored row and in the object it
\* returns, whatever the incoming value is.
C1_FillMissingKeepsPopulated ==
  (LastIsUpsert /\ last.fmo /\ last.existing # NoRow) =>
    \A c \in DOMAIN last.existing :
      Populated(last.existing[c]) =>
        /\ last.ret[c] = last.existing[c]
        /\ \E r \in TableNow : r.id = last.existing.id
        /\ \A r \in TableNow :
             r.id = last.existing.id => r[c] = last.existing[c]

\* a fill-missing-only upsert met a populated field with a different,
\* non-null incoming value
C1_Witness ==
  /\ last.op = "upsert_ingredient"
  /\ last.fmo
  /\ last.existing # NoRow
  /\ "cas" \in DOMAIN last.data
  /\ Populated(last.existing.cas)
  /\ last.data.cas # None
  /\ last.data.cas # last.existing.cas

\* C3 (as claimed): no two stored ingredients of one owner have names that are
\* equal case-insensitively, and upsert_ingredient creates a record only when
\* no record of that owner has the incoming name.
C3_UniqueNamePerOwner ==
  /\ \A r1, r2 \in ingredients :
       (r1.owner_id = r2.owner_id /\ Lower(r1.name.s) = Lower(r2.name.s))
         => r1 = r2
  /\ (last.op = "upsert_ingredient" /\ last.created) =>
       \A r \in last.pre :
         ~(r.owner_id = last.owner /\ Lower(r.name.s) = Lower(last.data.name.s))

\* C6 (as claimed): a fill-missing-only upsert_ingredient that finds a record
\* whose stored cat1 is exactly 100.0 and carries a different non-null cat1
\* leaves the incoming value in the stored row.
C6_SentinelOverwritten ==
  ( /\ last.op = "upsert_ingredient"
    /\ last.fmo
    /\ last.existing # NoRow
    /\ "cat1" \in DOMAIN last.data
    /\ last.existing.cat1 = Float10(NoRestriction10)
    /\ last.data.cat1 # None
    /\ last.data.cat1 # last.existing.cat1 ) =>
    \A r \in ingredients :
      r.id = last.existing.id => r.cat1 = last.data.cat1

\* C7: upsert_ingredient on an existing record leaves its id, name, owner_id
\* and created_at as they were, in the stored row and in the object it
\* returns, in fill-missing-only mode and in overwrite mode alike.
C7_ProtectedFieldsKept ==
  (last.op = "upsert_ingredient" /\ last.existing # NoRow) =>
    \A c \in {"id", "name", "owner_id", "created_at"} :
      /\ last.ret[c] = last.existing[c]
      /\ \E r \in ingredients : r.id = last.existing.id
      /\ \A r \in ingredients :
           r.id = last.existing.id => r[c] = last.existing[c]

\* an overwriting upsert found a record and carried another id, name, owner
\* and creation time for it
C7_Witness ==
  /\ last.op = "upsert_ingredient"
  /\ ~last.fmo
  /\ last.existing # NoRow
  /\ {"id", "owner_id", "created_at"} \subseteq DOMAIN last.data
  /\ last.data.id # last.existing.id
  /\ last.data.name # last.existing.name
  /\ last.data.owner_id # last.existing.owner_id
  /\ last.data.created_at # last.existing.created_at

---------------------------------------------------------------------------
(* Claims about enrich_ingredient, checked under SpecEnrich *)

LastIsEnrich == last.op = "enrich_ingredient"

StoreAsBefore == ingredients = last.pre /\ synonyms = last.pre_synonyms

\* C2 (as claimed): when enrich_ingredient runs a second time in succession
\* with the same name, the same answers of the sources and
\* fill_missing_only=true, the second run creates no record and leaves every
\* stored ingredient as the first run left it.
C2_SecondRunChangesNothing ==
  (LastIsEnrich /\ last.repeat) =>
    (~last.was_created /\ ingredients = last.pre)

\* C4 (as claimed): enrich_ingredient on a non-blank name, the database being
\* up, succeeds whenever one of the two sources returned data, whatever the
\* other source met.
C4_OneSourceSuffices ==
  ( /\ LastIsEnrich
    /\ Strip(last.input.name) # <<>>
    /\ ~last.dbfailed
    /\ (last.tgsc_found \/ last.pubchem_found) ) => last.success

\* C5: when neither source returned data for any search variant,
\* enrich_ingredient reports success=false and was_created=false, and the
\* ingredient and synonym tables are as they were before the call.
C5_NothingFoundNothingStored ==
  (LastIsEnrich /\ ~last.tgsc_found /\ ~last.pubchem_found) =>
    (~last.success /\ ~last.was_created /\ StoreAsBefore)

\* an enrichment of a non-blank name, on a store that holds a record, found
\* nothing in either source
C5_Witness ==
  /\ LastIsEnrich
  /\ last.input.name = <<"rose">>
  /\ last.input.tgsc = "none"
  /\ last.input.pubchem = "notfound"
  /\ ~last.tgsc_found /\ ~last.pubchem_found
  /\ last.error_message = "No data found"
  /\ last.pre # {}

\* C8 (as claimed): when the upsert of a successful enrichment found an
\* existing record, the reported updated_fields is the set of fields written
\* in that run: the columns whose stored value changed, or the attributes
\* the upsert set; it is empty when nothing was written.
C8_UpdatedFieldsAreTheWrites ==
  (LastIsEnrich /\ last.success /\ last.existing # NoRow) =>
    \/ last.updated_fields =
         {c \in IngColumns :
            \E r \in ingredients :
              r.id = last.existing.id /\ r[c] # last.existing[c]}
    \/ last.updated_fields = last.written

\* C9 (as claimed): when a store call of enrich_ingredient fails, the
\* enrichment reports failure and the ingredient and synonym tables are as
\* they were before the call.
C9_FailedWriteLeavesNothing ==
  (LastIsEnrich /\ last.dbfailed) => (~last.success /\ StoreAsBefore)

\* C10 (as claimed): enrich_ingredient with an empty or whitespace-only name
\* fails without sending a request to a source and without writing to the
\* store.
C10_BlankNameRejectedAtOnce ==
  (LastIsEnrich /\ Strip(last.input.name) = <<>>) =>
    (~last.success /\ last.posts = 0 /\ StoreAsBefore)

---------------------------------------------------------------------------
(* Claims about merge_data_sources, checked under SpecMerge *)

LastIsMerge == last.op = "merge_data_sources"

\* a profile that has a CAS number
HasCas(d) == d # None /\ d.cas.t = "str" /\ d.cas.s # <<>>

C12_MergeDeterministic ==
  LastIsMerge => last.merged = last.merged_again

---------------------------------------------------------------------------
(* Claims about the search variants, checked under SpecVariants *)

LastIsVariants == last.op = "get_search_variants"

BergamotEssentialOil == <<"Bergamot", " ", "Essential", " ", "Oil">>

\* C20: get_search_variants returns at most 5 strings, pairwise distinct
\* when compared case-insensitively, the first being
\* normalize_ingredient_name(name); for "Bergamot Essential Oil" the first
\* is "bergamot oil".
C20_VariantsBoundedDistinct ==
  LastIsVariants =>
    LET v == last.variants
    IN /\ Len(v) <= 5
       /\ \A i, j \in 1..Len(v) : Lower(v[i]) = Lower(v[j]) => i = j
       /\ Len(v) >= 1 /\ v[1] = normalize_ingredient_name(last.name)
       /\ last.name = BergamotEssentialOil
            => v[1] = <<"bergamot", " ", "oil">>

\* the variants of "Bergamot Essential Oil": the normalised name, the name
\* as given, and the aliases that are new
C20_Witness ==
  /\ LastIsVariants
  /\ last.name = BergamotEssentialOil
  /\ last.variants = << <<"bergamot", " ", "oil">>, BergamotEssentialOil,
                        <<"citrus", " ", "bergamia">> >>

---------------------------------------------------------------------------
(* Claims about the fetch layer, checked under SpecFetch and SpecScraper *)

LastIsFetch == last.op = "_fetch"

\* the first response of the call was a 429 and the request sent again met
\* a response
ResentAfterTooMany ==
  /\ ~last.hit
  /\ last.input.script[1].kind = "response"
  /\ last.input.script[1].status_code = 429
  /\ Len(last.input.script) >= 2
  /\ last.input.script[2].kind = "response"

\* C13: any two consecutive outbound requests of the fetch layer, within a
\* call and from one call to the next, are at least delay_seconds apart,
\* the request sent again after a 429 and those of the retries included.
C13_RequestsSpacedByDelay ==
  last.op \in {"_fetch", "search_tgsc"} =>
    LET times == (IF last.pre.sent < 0 THEN <<>> ELSE <<last.pre.sent>>)
                   \o last.sends
    IN \A k \in 1..(Len(times) - 1) : times[k + 1] - times[k] >= 10

\* C14: when every request fails with a connection error or a timeout the
\* fetch makes 3 attempts in all and then raises to its caller; nothing but
\* these two failures is ever retried, so an HTTP error status ends the call.
C14_TransientFailuresBounded ==
  LastIsFetch =>
    /\ last.attempts <= 3
    /\ last.retried \subseteq {"ConnectionError", "Timeout"}
    /\ (/\ ~last.hit
        /\ \A k \in 1..Len(last.input.script) :
             last.input.script[k].kind = "exception")
         => /\ last.attempts = 3
            /\ Len(last.sends) = 3
            /\ last.raised = "RetryError"
    /\ (/\ ~last.hit
        /\ last.input.script[1].kind = "response"
        /\ last.input.script[1].status_code = 500)
         => last.raised = "HTTPError" /\ last.attempts = 1 /\ Len(last.sends) = 1

\* three failed requests, then RetryError
C14_Witness ==
  /\ LastIsFetch
  /\ last.input.script =
       <<Exc("Timeout"), Exc("ConnectionError"), Exc("Timeout")>>
  /\ last.raised = "RetryError"
  /\ Len(last.sends) = 3

\* C15: on a 429 response _fetch waits the Retry-After value of the headers
\* (30 seconds without the header) and sends the request again exactly once;
\* if the second response is an error too it sends nothing more and gives up.
C15_TooManyResentOnce ==
  (LastIsFetch /\ ResentAfterTooMany) =>
    LET header == last.input.script[1].retry_after
        second == last.input.script[2]
    IN /\ Len(last.sends) = 2
       /\ last.sends[2] - last.sends[1] =
            (IF header.t = "absent" THEN 30 ELSE header.n)
       /\ last.attempts = 1
       /\ (second.status_code >= 400 /\ second.status_code # 404)
            => last.raised = "HTTPError"

\* C16: a live 404 response is returned by _fetch as a response with
\* status_code 404: no exception, no retry and no further request.
C16_NotFoundReturned ==
  (LastIsFetch /\ ~last.hit) =>
    /\ (/\ last.input.script[1].kind = "response"
        /\ last.input.script[1].status_code = 404)
         => /\ last.raised = "none" /\ last.status_code = 404
            /\ Len(last.sends) = 1 /\ last.attempts = 1 /\ last.retried = {}
    /\ (/\ ResentAfterTooMany
        /\ last.input.script[1].retry_after.t # "date"
        /\ last.input.script[2].status_code = 404)
         => /\ last.raised = "none" /\ last.status_code = 404
            /\ Len(last.sends) = 2 /\ last.attempts = 1 /\ last.retried = {}

\* a call that met a 404 at its first request
C16_Witness ==
  /\ LastIsFetch /\ ~last.hit
  /\ last.input.script = <<Response(404, "nf")>>
  /\ last.raised = "none" /\ last.status_code = 404 /\ Len(last.sends) = 1

\* the call was made with the cache in use and found a cache file for its URL
FoundCached ==
  /\ LastIsFetch
  /\ last.input.use_cache /\ last.pre.cache_enabled
  /\ last.pre.cache[last.input.url] # NoEntry

\* C17: a cache entry written at T is served with no request and no
\* rate-limit wait at every time before T + TTL, and at every time after
\* T + TTL it is a miss and a live request is sent.
C17_CacheServedWithinTtl ==
  FoundCached =>
    LET entry == last.pre.cache[last.input.url]
    IN /\ last.at < entry.cached_at + 86400
            => /\ last.hit
               /\ last.sends = <<>>
               /\ scraper.now = last.at
               /\ last.text = entry.text
               /\ last.status_code = entry.status_code
       /\ last.at > entry.cached_at + 86400
            => ~last.hit /\ Len(last.sends) >= 1

\* an entry served an hour before its TTL is over, less than delay_seconds
\* after the last request
C17_Witness ==
  /\ FoundCached
  /\ last.at = last.pre.cache[last.input.url].cached_at + 86400 - 3600
  /\ last.hit

\* C18: with caching enabled, when _fetch returns a live successful response
\* the cache holds an entry for the URL with the body and the status of the
\* response, so that the next fetch of the URL within the TTL is a hit that
\* returns them.
C18_LiveSuccessIsCached ==
  (LastIsFetch /\ last.input.use_cache /\ last.pre.cache_enabled) =>
    /\ (~last.hit /\ last.raised = "none" /\ last.status_code < 400)
         => scraper.cache[last.input.url] =
              [cached_at |-> scraper.now, text |-> last.text,
               status_code |-> last.status_code]
    /\ (/\ last.pre.cache[last.input.url] # NoEntry
        /\ last.at - last.pre.cache[last.input.url].cached_at < 86400)
         => /\ last.hit
            /\ last.text = last.pre.cache[last.input.url].text
            /\ last.status_code = last.pre.cache[last.input.url].status_code

\* a live 200 response after a 429, found in the cache when the call ends
C18_Witness ==
  /\ LastIsFetch /\ last.input.use_cache /\ last.pre.cache_enabled
  /\ ~last.hit /\ last.status_code = 200 /\ Len(last.sends) = 2
  /\ scraper.cache[last.input.url] # NoEntry
  /\ scraper.cache[last.input.url].text = last.text

\* C19: search_tgsc returns no result only after the direct search and the
\* two text searches have all been tried, in that order; a strategy that
\* raises, finds no page, or finds a page that yields no profile never keeps
\* the next strategy from being tried.
C19_AllStrategiesTried ==
  (last.op = "search_tgsc" /\ ~last.found) => last.tried = 3

\* C26: a fetch whose re-sent request after a 429 is answered with 429 again
\* is then handled as a transient failure: the backoff loop retries it up to
\* the bound of 3 attempts before the error reaches the caller.
C26_SecondTooManyIsTransient ==
  (/\ LastIsFetch /\ ResentAfterTooMany
   /\ \A k \in 1..Len(last.input.script) :
        last.input.script[k].status_code = 429
   /\ last.input.script[1].retry_after.t # "date")
    => last.attempts = 3

\* C27: the backoff wait before the n-th retry starts at 2 seconds and
\* doubles with each retry, capped at 30 seconds: 2 s before the second
\* attempt and 4 s before the third.
C27_BackoffDoubles ==
  LastIsFetch =>
    \A n \in 1..Len(last.waits) :
      last.waits[n] = (IF 2 * Pow2(n - 1) < 30 THEN 2 * Pow2(n - 1) ELSE 30)

\* the name lowercased and trimmed, and the same with the first matching
\* suffix of the list removed
LowerTrimmed(name) == Lower(Strip(name))

SuffixStripped(name) ==
  LET n == LowerTrimmed(name)
      si == FirstOf({i \in 1..Len(suffixes_to_remove) :
                       EndsWith(n, suffixes_to_remove[i])})
  IN IF si = 0 THEN n
     ELSE Strip(SubSeq(n, 1, Len(n) - Len(suffixes_to_remove[si])))

\* C21: normalize_ingredient_name returns the name lowercased and trimmed
\* with the first matching listed suffix removed, and the preferred name of
\* the alias group when the suffix-stripped base is the key of one.  (Names
\* that are themselves an alias of a group are left out of the statement.)
C21_NormalizedLowerNoSuffix ==
  LastIsVariants =>
    IF SuffixStripped(last.name) \in DOMAIN INGREDIENT_ALIASES
    THEN last.normalized = INGREDIENT_ALIASES[SuffixStripped(last.name)][1]
    ELSE \/ AliasHit(LowerTrimmed(last.name)) # 0
         \/ last.normalized = SuffixStripped(last.name)

\* the alias groups a name matches: as key or alias, or through its
\* suffix-stripped base
MatchedGroups(name) ==
  {p \in DOMAIN INGREDIENT_ALIASES :
     \/ p = SuffixStripped(name)
     \/ p = LowerTrimmed(name)
     \/ LowerTrimmed(name) \in {Lower(a) : a \in SeqRange(INGREDIENT_ALIASES[p])}}

\* C22: whenever the name matches an alias group, as its key, as one of its
\* aliases or through its suffix-stripped base, every alias of the group is
\* among the variants (compared case-insensitively) unless the cap of 5
\* entries cut it off.
C22_AliasesOfMatchedGroupAdded ==
  LastIsVariants =>
    \A p \in MatchedGroups(last.name) :
      \A a \in SeqRange(INGREDIENT_ALIASES[p]) :
        \/ \E k \in 1..Len(last.variants) : Lower(last.variants[k]) = Lower(a)
        \/ Len(last.variants) = 5

---------------------------------------------------------------------------
(* Claims about _parse_percentage, checked under SpecPercentage *)

\* C24: _parse_percentage maps blank, "-", "N/A" and "NR" to 100.0, any value
\* containing "P" or "PROHIBIT" to 0.0, strips a trailing "%" and parses the
\* rest as a number, and maps every value that does not parse to 100.0;
\* "0.5%" gives 0.5, "12" gives 12.0, "P" gives 0.0 and "" gives 100.0.
\* (Values with a lowercase p are left out of the statement.)
C24_PercentageParsed ==
  (last.op = "_parse_percentage" /\ ~Contains(last.value, <<"p">>)) =>
    LET v == Strip(last.value)
        rest == IF v # <<>> /\ v[Len(v)] = "%"
                THEN Strip(SubSeq(v, 1, Len(v) - 1)) ELSE v
    IN IF v \in {<<>>, <<"-">>, <<"N", "/", "A">>, <<"N", "R">>}
       THEN last.result = 100000
       ELSE IF Contains(v, <<"P">>) THEN last.result = 0
       ELSE IF ParseFloat(rest).ok THEN last.result = ParseFloat(rest).n
       ELSE last.result = 100000

---------------------------------------------------------------------------
(* Claims about concurrent callers, checked under SpecThreads *)

\* C25: when two threads call _fetch on the shared scraper and both miss
\* the cache, the rate-limit check and the update of the time of the last
\* request are one atomic step: the two requests are never sent less than
\* delay_seconds apart.
C25_RateLimitAtomic ==
  (scraper.pc[1] = "done" /\ scraper.pc[2] = "done") =>
    \/ scraper.sent[1] - scraper.sent[2] >= 10
    \/ scraper.sent[2] - scraper.sent[1] >= 10

---------------------------------------------------------------------------
(* Claims about the synonym store, checked under SpecSynonyms *)

\* the rows of `table` that carry the tuple (ing, synonym, owner)
WithTuple(table, ing, synonym, owner) ==
  {r \in table : r.ing = ing /\ r.synonym = synonym /\ r.owner_id = owner}

LastAddedExisting ==
  /\ last.op = "add_synonym"
  /\ WithTuple(last.pre, Str(last.input.ingredient_name),
               Str(last.input.synonym), last.owner) # {}

\* C23: after any sequence of add_synonym and enrich_ingredient calls the
\* synonym store holds at most one row per (ingredient name, synonym, owner)
\* tuple, and add_synonym on a tuple that already exists returns the existing
\* row and leaves the store unchanged.
C23_SynonymTupleUnique ==
  /\ \A r \in synonyms :
       WithTuple(synonyms, r.ing, r.synonym, r.owner_id) = {r}
  /\ LastAddedExisting =>
       /\ synonyms = last.pre
       /\ last.ret \in WithTuple(last.pre, Str(last.input.ingredient_name),
                                  Str(last.input.synonym), last.owner)

\* add_synonym met a row that enrich_ingredient had stored
C23_Witness ==
  /\ LastAddedExisting
  /\ last.ret.source # None
  /\ Cardinality(synonyms) >= 2

---------------------------------------------------------------------------
(* Claims about _parse_tgsc_page, checked under SpecParse *)

\* the label patterns of a profile field
PatternKey(field) ==
  CASE field = "cas" -> "cas"
    [] field = "odor_description" -> "odor"
    [] field = "odor_family" -> "odor_type"
    [] field = "molecular_weight" -> "molecular_weight"

\* what a row gives for a field: the CAS number in its cell, or the cell
Supplied(field, row) ==
  IF field = "cas" THEN CasSearch(row.value) ELSE Str(row.value)

\* the rows whose label matches the field and whose cell gives a value
Suppliers(field, rows) ==
  {i \in 1..Len(rows) : /\ LabelIn(PatternKey(field), rows[i].label)
                        /\ Truthy(Supplied(field, rows[i]))}

\* C28: in _parse_tgsc_page, for each profile field the value kept is that of
\* the first table row whose label matches the field: neither a later
\* matching row (in the first or the second table pass) nor the regex fallback
\* over the page text replaces a value that a table row already supplied.
C28_FirstRowWins ==
  (last.op = "_parse_tgsc_page" /\ last.ret # None) =>
    \A field \in DOMAIN EmptyProfile :
      Suppliers(field, last.page.rows) # {} =>
        last.ret[field] =
          Supplied(field,
                   last.page.rows[FirstOf(Suppliers(field, last.page.rows))])

---------------------------------------------------------------------------
(* Claims about sync_ifra_library, checked under SpecSync *)

\* the upsert's entry has neither a CAS number nor a name
NeitherCasNorName ==
  /\ ~Truthy(GetOrEmpty(last.data, "cas"))
  /\ ~Truthy(GetOrEmpty(last.data, "name"))

\* C29: upsert_ifra_entry accepts an entry that has only one of CAS and name
\* and raises a validation error only when both are missing; so during
\* sync_ifra_library an entry parsed with a name and an empty CAS cell is
\* inserted or updated, never skipped.
C29_NameOnlyEntrySynced ==
  /\ (last.op = "upsert_ifra_entry" /\ last.raised = "ValueError")
       => NeitherCasNorName
  /\ last.op = "sync_ifra_library" =>
       /\ last.skipped = 0
       /\ last.inserted + last.updated = last.total_entries

---------------------------------------------------------------------------
(* Claims about the two merges, checked under SpecLookup *)

\* C30: merge_ingredient_data and merge_data_sources apply the same source
\* priority: for every pair of fragrance profile and chemical profile the two
\* functions return the same CAS number, molecular formula and molecular
\* weight.
C30_MergesAgree ==
  last.op = "merge" =>
    /\ last.lookup.cas = last.enrichment.cas
    /\ last.lookup.formula = last.enrichment.formula
    /\ last.lookup.molecular_weight = last.enrichment.molecularWeight

===========================================================================
